---- MODULE Spec2Model ----
(***************************************************************************)
(* Model of the recipe crawl / extraction pipeline of flavorlens-data:     *)
(*   recipe_crawler_simple/recipe_url_processor.py     (crawl engine)      *)
(*   recipe_crawler_simple/openai_recipe_processor.py  (extraction engine) *)
(*   recipe_crawler_simple/utils.py                    (fetcher, classifier)*)
(* The store is the PostgreSQL schema "recipe": table recipe_urls and the   *)
(* dish tables.  Every commit of the code is one step of the model.         *)
(***************************************************************************)
EXTENDS Integers, Sequences, FiniteSets, TLC

(***************************************************************************)
(* Bounds                                                                  *)
(***************************************************************************)
\* number of rows of recipe.recipe_urls
NumRows == 2
\* longest ingredient list the LLM returns
MaxIngr == 2
\* how often a running engine process is terminated from outside
MaxKills == 1

\* max_concurrency of the two engines: the permits of a semaphore
MaxConcurrency == 1

Rows == 1..NumRows

\* ContentProcessor(batch_size) and RecipeExtractor(batch_size): the LIMIT of
\* the claim queries (a parameter of the program, bounded here)
BatchSize == 2

\* the crawl engine instances that run against the store
CrawlEngines == {1, 2}

\* SQL NULL / Python None in a string-valued slot
NULL == "NULL"

(***************************************************************************)
(* Proxy-fallback fetcher (utils.fetch_with_proxies)                       *)
(***************************************************************************)
ProxyOrder == <<"datacenter", "premium">>
ProxyNames == {"datacenter", "premium"}
\* what one session.get through one proxy does
Responses == {"200", "non200", "exception"}

\* The pages a site serves: what BeautifulSoup extracts from the body.
\* broken = TRUE is a body on which the parsing code raises
\* (e.g. an empty <title/>: soup.title.string is None).
Pages ==
    { [text |-> "", title |-> "", description |-> "", broken |-> FALSE],
      [text |-> "Ingredients ... Steps", title |-> "Apple Pie Recipe",
       description |-> "", broken |-> FALSE],
      [text |-> "", title |-> "", description |-> "", broken |-> TRUE] }

\* str(e) of the exception the parsing code raises on a broken page
ParseError == "'NoneType' object has no attribute 'strip'"

\* @retry(stop=stop_after_attempt(2), wait=wait_fixed(2)) of fetch_with_proxies
AttemptsPerProxy == 2

\* what the requests through the proxies do: resp[p][k] is the answer to the
\* k-th request through proxy p
ProxyResponses == [ProxyNames -> [1..AttemptsPerProxy -> Responses]]

\* the loop with the premium proxy first
RECURSIVE TryProxies_PremiumFirst(_, _, _, _, _)
TryProxies_PremiumFirst(i, cfg, resp, page, attempts) ==
    IF i > Len(ProxyOrder) THEN [content |-> <<>>, proxy |-> NULL, attempts |-> attempts]
    ELSE LET p == ProxyOrder[Len(ProxyOrder) + 1 - i]
         IN  IF ~cfg[p] THEN TryProxies_PremiumFirst(i + 1, cfg, resp, page, attempts)
             ELSE IF resp[p][1] = "200"
             THEN [content |-> <<page>>, proxy |-> p, attempts |-> Append(attempts, p)]
             ELSE TryProxies_PremiumFirst(i + 1, cfg, resp, page, Append(attempts, p))

\* the loop over the proxies, from index i on; cfg[p] = TRUE iff the proxy's
\* environment variable is set; attempts lists the proxies requested so far
\* (every proxy is requested once: resp[p][1] is its answer)
RECURSIVE TryProxies(_, _, _, _, _)
TryProxies(i, cfg, resp, page, attempts) ==
    IF i > Len(ProxyOrder) THEN [content |-> <<>>, proxy |-> NULL, attempts |-> attempts]
    ELSE LET p == ProxyOrder[i]
         IN  IF ~cfg[p] THEN TryProxies(i + 1, cfg, resp, page, attempts)
             ELSE IF resp[p][1] = "200"
             THEN [content |-> <<page>>, proxy |-> p, attempts |-> Append(attempts, p)]
             ELSE TryProxies(i + 1, cfg, resp, page, Append(attempts, p))

\* fetch_with_proxies: no exception leaves the loop body, so the @retry
\* wrapper returns the result of the first call
fetch_with_proxies(cfg, resp, page) == TryProxies(1, cfg, resp, page, <<>>)

(***************************************************************************)
(* URL strings.  A URL is the sequence of its characters; a run of letters  *)
(* that is never split ("https", "sitemap", ".com") is one element.         *)
(* urllib.parse of Python 3.11: urlsplit, urlparse, urlunparse.             *)
(***************************************************************************)
\* the characters: c.isalpha() holds of the first character of the run
AlphaChars == {"https", "http", "ftp", "x", "X", "sitemap", "s"}
\* urllib.parse.scheme_chars: letters, digits, "+", "-", "."
SchemeChars == AlphaChars \cup {".com", ".xml"}
\* urllib.parse.uses_params / uses_netloc, as far as the characters reach
UsesParams == {<<>>, <<"http">>, <<"https">>, <<"ftp">>}
UsesNetloc == {<<>>, <<"http">>, <<"https">>, <<"ftp">>}

\* str.lower of one run of letters
LowerChar(c) ==
    CASE c = "X"                      -> "x"
      [] c \in {"Recipe", "RECIPE"}   -> "recipe"
      [] c = "Ingredient"             -> "ingredient"
      [] c = "Step"                   -> "step"
      [] c = "Direction"              -> "direction"
      [] c = "Apple"                  -> "apple"
      [] c = "Pie"                    -> "pie"
      [] c \in {"Sitemap", "SITEMAP"} -> "sitemap"
      [] OTHER                        -> c

\* str.lower
lower(s) == [i \in 1..Len(s) |-> LowerChar(s[i])]

\* tok in s
Contains(s, c) == \E i \in 1..Len(s) : s[i] = c

\* s.find(c, start), 1-based; 0 when c does not occur
find(s, c, start) ==
    LET I == {j \in start..Len(s) : s[j] = c}
    IN  IF I = {} THEN 0 ELSE CHOOSE j \in I : \A k \in I : j <= k

\* s.rfind(c), 1-based; 0 when c does not occur
rfind(s, c) ==
    LET I == {j \in 1..Len(s) : s[j] = c}
    IN  IF I = {} THEN 0 ELSE CHOOSE j \in I : \A k \in I : j >= k

\* s.rstrip('/')
RECURSIVE rstrip(_)
rstrip(s) ==
    IF s # <<>> /\ s[Len(s)] = "/" THEN rstrip(SubSeq(s, 1, Len(s) - 1)) ELSE s

\* urlsplit, the scheme: the position of the ":" that ends it, 0 without a scheme
SchemeEnd(url) ==
    LET i == find(url, ":", 1)
    IN  IF i > 1 /\ url[1] \in AlphaChars /\ \A k \in 1..(i - 1) : url[k] \in SchemeChars
        THEN i ELSE 0

\* urlsplit: url[:2] == '//' of what follows the scheme (s is SchemeEnd)
HasNetloc(url, s) == Len(url) >= s + 2 /\ url[s + 1] = "/" /\ url[s + 2] = "/"

\* urlsplit with _splitnetloc: where the path starts, after the scheme and the netloc
PathStart(url, s) ==
    IF HasNetloc(url, s)
    THEN LET D == {j \in (s + 3)..Len(url) : url[j] \in {"/", "?", "#"}}
         IN  IF D = {} THEN Len(url) + 1 ELSE CHOOSE j \in D : \A k \in D : j <= k
    ELSE s + 1

\* urlsplit: url.split('?', 1) of what is left of the first "#" (h is its
\* position, 0 when there is none, p is PathStart)
SplitQuery(url, p, h) ==
    LET end == IF h > 0 THEN h - 1 ELSE Len(url)
        q   == find(url, "?", p)
    IN  IF q > 0 /\ q <= end
        THEN [path |-> SubSeq(url, p, q - 1), query |-> SubSeq(url, q + 1, end)]
        ELSE [path |-> SubSeq(url, p, end), query |-> <<>>]

\* urlsplit once the scheme and the start of the path are known
SplitFrom(url, s, p) ==
    LET netloc == IF HasNetloc(url, s) THEN SubSeq(url, s + 3, p - 1) ELSE <<>>
        h      == find(url, "#", p)
    IN  [raised   |-> Contains(netloc, "[") # Contains(netloc, "]"),
         scheme   |-> lower(SubSeq(url, 1, s - 1)),
         netloc   |-> netloc,
         path     |-> SplitQuery(url, p, h).path,
         query    |-> SplitQuery(url, p, h).query,
         fragment |-> IF h > 0 THEN SubSeq(url, h + 1, Len(url)) ELSE <<>>]

\* urllib.parse.urlsplit; raised = ValueError("Invalid IPv6 URL")
urlsplit(url) == SplitFrom(url, SchemeEnd(url), PathStart(url, SchemeEnd(url)))

\* urllib.parse._splitparams
splitparams(url) ==
    LET i == IF Contains(url, "/") THEN find(url, ";", rfind(url, "/")) ELSE find(url, ";", 1)
    IN  IF i = 0 THEN [path |-> url, params |-> <<>>]
        ELSE [path |-> SubSeq(url, 1, i - 1), params |-> SubSeq(url, i + 1, Len(url))]

\* urllib.parse.urlparse
urlparse(url) ==
    LET sp == urlsplit(url)
        pp == IF sp.scheme \in UsesParams /\ Contains(sp.path, ";")
              THEN splitparams(sp.path)
              ELSE [path |-> sp.path, params |-> <<>>]
    IN  [raised |-> sp.raised, scheme |-> sp.scheme, netloc |-> sp.netloc,
         path |-> pp.path, params |-> pp.params, query |-> sp.query,
         fragment |-> sp.fragment]

\* urllib.parse.urlunparse (with urlunsplit)
urlunparse(p) ==
    LET u0 == IF p.params # <<>> THEN p.path \o <<";">> \o p.params ELSE p.path
        slashes == Len(u0) >= 2 /\ u0[1] = "/" /\ u0[2] = "/"
        u1 == IF p.netloc # <<>> \/ (p.scheme # <<>> /\ p.scheme \in UsesNetloc /\ ~slashes)
              THEN <<"/", "/">> \o p.netloc
                     \o (IF u0 # <<>> /\ u0[1] # "/" THEN <<"/">> \o u0 ELSE u0)
              ELSE u0
        u2 == IF p.scheme # <<>> THEN p.scheme \o <<":">> \o u1 ELSE u1
        u3 == IF p.query # <<>> THEN u2 \o <<"?">> \o p.query ELSE u2
    IN  IF p.fragment # <<>> THEN u3 \o <<"#">> \o p.fragment ELSE u3

\* sitemap_processor.normalize_url (utils.normalize_url is the same text)
normalize_url(url) ==
    IF url = <<>> THEN url
    ELSE LET parsed == urlparse(lower(url))
         IN  IF parsed.raised THEN rstrip(lower(url))
             ELSE urlunparse([scheme |-> <<"https">>, netloc |-> parsed.netloc,
                              path |-> IF parsed.path # <<"/">> THEN rstrip(parsed.path)
                                       ELSE <<"/">>,
                              params |-> <<>>, query |-> <<>>, fragment |-> <<>>])

\* tldextract: the public suffixes among the characters
PublicSuffixes == {".com"}
\* tldextract.extract(url): domain and suffix are both non-empty
HasDomainAndSuffix(netloc) ==
    /\ Len(netloc) >= 2
    /\ netloc[Len(netloc)] \in PublicSuffixes
    /\ netloc[Len(netloc) - 1] \in AlphaChars

\* is_valid_url, the excluded patterns, as far as the characters reach:
\* \.(jpg|jpeg|png|gif|pdf|zip|doc|docx|xml|txt)$
ExcludedExtensions == {".xml"}
\* /(sitemap|feed|rss|atom|api|admin|login|wp-content|tag|category|author|search)/
ExcludedSegments == {"sitemap"}

\* utils.is_valid_url
is_valid_url(url) ==
    IF url = <<>> THEN FALSE
    ELSE LET parsed == urlparse(url)
             path   == lower(parsed.path)
         IN  IF parsed.raised THEN FALSE
             ELSE IF ~(parsed.scheme # <<>> /\ parsed.netloc # <<>>
                       /\ parsed.scheme \in {<<"http">>, <<"https">>}) THEN FALSE
             ELSE IF ~HasDomainAndSuffix(parsed.netloc) THEN FALSE
             ELSE ~(\/ (path # <<>> /\ path[Len(path)] \in ExcludedExtensions)
                    \/ \E i \in 1..(Len(path) - 2) :
                          /\ path[i] = "/"
                          /\ path[i + 1] \in ExcludedSegments
                          /\ path[i + 2] = "/")

(***************************************************************************)
(* Recipe classifier (utils.is_recipe).  Texts are sequences of character   *)
(* runs like the URLs: "recipes" is the run "recipe" followed by "s".       *)
(***************************************************************************)
\* the character runs of MaxTextLen or fewer
MaxTextLen == 3

\* term in s, for a term of one or more runs
In(term, s) ==
    \E i \in 1..(Len(s) - Len(term) + 1) : SubSeq(s, i, i + Len(term) - 1) = term

\* the characters of the URLs and page strings the engines handle
Chars(s) ==
    CASE s = "https://x.com/recipes/pie"
           -> <<"https", ":", "/", "/", "x", ".com", "/", "recipe", "s", "/", "pie">>
      [] s = "https://x.com/about"
           -> <<"https", ":", "/", "/", "x", ".com", "/", "about">>
      [] s = "Apple Pie Recipe"      -> <<"Apple", " ", "Pie", " ", "Recipe">>
      [] s = "Ingredients ... Steps" -> <<"Ingredient", "s", " ", "...", " ", "Step", "s">>
      [] OTHER                       -> <<>>

\* recipe_urls.url of each row (written once by the sitemap walker)
Url(r) == IF r = 1 THEN "https://x.com/recipes/pie" ELSE "https://x.com/about"

\* Rule 1 on the whole URL instead of its path
is_recipe_WholeUrl(url, title, description, content) ==
    IF In(<<"recipe">>, lower(url)) THEN TRUE
    ELSE IF In(<<"recipe">>, lower(title)) \/ In(<<"recipe">>, lower(description)) THEN TRUE
    ELSE /\ \/ In(<<"ingredient">>, lower(content))
            \/ In(<<"ingredient", "s">>, lower(content))
         /\ \E term \in {<<"instruction">>, <<"instruction", "s">>, <<"direction">>,
                          <<"direction", "s">>, <<"step", "s">>, <<"step">>} :
                In(term, lower(content))

\* Rule 3: ingredient terms and instruction terms both appear in the
\* (lower-cased) content
HasIngredientsAndInstructions(content) ==
    LET has_ingredients  == In(<<"ingredient">>, content) \/ In(<<"ingredient", "s">>, content)
        has_instructions == \E term \in {<<"instruction">>, <<"instruction", "s">>,
                                         <<"direction">>, <<"direction", "s">>,
                                         <<"step", "s">>, <<"step">>} : In(term, content)
    IN  has_ingredients /\ has_instructions

\* utils.is_recipe; None and "" are both the empty sequence.  The URLs of
\* the model have no "[" or "]", on which urlparse raises.
is_recipe(url, title, description, content) ==
    IF In(<<"recipe">>, lower(urlparse(lower(url)).path)) THEN TRUE
    ELSE IF In(<<"recipe">>, lower(title)) \/ In(<<"recipe">>, lower(description)) THEN TRUE
    ELSE IF HasIngredientsAndInstructions(lower(content)) THEN TRUE
    ELSE FALSE

(***************************************************************************)
(* State                                                                   *)
(***************************************************************************)
VARIABLES
    proxy_cfg,        \* config.DATACENTER_PROXY / PREMIUM_PROXY are set
    recipe_urls,      \* table recipe.recipe_urls: row id -> columns
    dishes,           \* table recipe.dishes: dish_id -> dish_name or NULL (no row)
    dish_ingredients, \* table recipe.dish_ingredients: dish_id -> rows, in insertion order
    dish_attributes,  \* table recipe.dish_attributes: dish_id -> attributes or NULL (no row)
    cpc,              \* crawl engine -> position in ContentProcessor.run
    urls,             \* crawl engine -> the batch returned by get_pending_urls
    results,          \* crawl engine -> row -> result of process_url (<<>>: none yet)
    fetched,          \* the rows that some batch has dispatched to the fetcher
    holding,          \* crawl engine -> the rows whose task is inside `async with self.semaphore`
    xpc,              \* position of the extraction engine in RecipeExtractor.run
    recipes,          \* the rows of the batch of get_pending_recipes still to be committed, in query order
    xresults,         \* row -> result of extract_recipe (<<>>: none yet)
    llm_calls,        \* row -> outcomes of the LLM calls of its latest extract_recipe
    extracted,        \* the rows that some batch has dispatched to the LLM
    xholding,         \* the rows whose extract_recipe is inside `async with self.semaphore`
    kills,            \* number of engine processes terminated from outside so far
    raw_url,          \* the URL handed to normalize_url
    normalized,       \* the results of normalize_url applied to raw_url again and again
    web,              \* what the site serves: sitemap URL -> document
    wpc,              \* position of process_site / get_all_urls_from_site
    sitemaps_to_process, \* get_all_urls_from_site: the seeds the for loop has not reached yet
    stack,            \* the active calls of _process_sitemap_recursive, the innermost last
    processed_sitemaps,  \* SitemapCrawler.processed_sitemaps
    all_urls,         \* get_all_urls_from_site: all_urls
    unique_urls,      \* the list get_all_urls_from_site returns
    fetch_count,      \* sitemap URL -> how often this walk has fetched and parsed it
    site_status,      \* recipe.recipe_sites.status of the site
    fetch_args,       \* the proxies set, the answers of the proxies and the page of one fetch
    fetch_result,     \* what fetch_with_proxies returned for fetch_args (<<>>: not called yet)
    classify_args,    \* url, title, description and content of one call of is_recipe
    classify_result,  \* what is_recipe returned for classify_args (<<>>: not called yet)
    truncate_args,    \* content and max_chars of one call of truncate_content
    truncate_result   \* what truncate_content returned (<<>>: not called yet)

store == <<recipe_urls, dishes, dish_ingredients, dish_attributes>>
crawl == <<cpc, urls, results, fetched, holding>>
extraction == <<xpc, recipes, xresults, llm_calls, extracted, xholding>>
normalizer == <<raw_url, normalized>>
\* the state of the components that are not part of the two engines
walker == <<web, wpc, sitemaps_to_process, stack, processed_sitemaps, all_urls,
            unique_urls, fetch_count, site_status>>
fetcher == <<fetch_args, fetch_result>>
classifier == <<classify_args, classify_result>>
truncator == <<truncate_args, truncate_result>>
tools == <<normalizer, walker, fetcher, classifier, truncator>>
vars  == <<proxy_cfg, store, crawl, extraction, kills, tools>>

\* the columns of recipe.recipe_urls: the ones the statements of the two
\* engines and of the sitemap walker name, but for crwal_status, which only
\* the failure UPDATE of save_results names
Columns == {"id", "original_url", "url", "site_id", "sitemap_url", "randnum",
            "crawl_status", "crawl_failure_reason", "proxy_used",
            "last_crawled", "parsed_text", "page_title", "page_description",
            "title", "description", "is_recipe", "llm_status", "llm_failure_reason"}

\* a row as sitemap_processor.save_urls_to_database inserts it
NewRow ==
    [crawl_status |-> "pending", crawl_failure_reason |-> NULL, proxy_used |-> NULL,
     parsed_text |-> NULL, page_title |-> NULL, page_description |-> NULL,
     title |-> NULL, description |-> NULL, is_recipe |-> NULL,
     llm_status |-> "pending", llm_failure_reason |-> NULL]

NoResults == [r \in Rows |-> <<>>]

Min(a, b) == IF a < b THEN a ELSE b

(***************************************************************************)
(* Crawl engine: ContentProcessor                                          *)
(***************************************************************************)
\* get_pending_urls: SELECT id, url ... WHERE crawl_status = 'pending' LIMIT n.
\* The batches the query can return (no ORDER BY: any n pending rows).
get_pending_urls(table) ==
    LET pending == {r \in DOMAIN table : table[r].crawl_status = "pending"}
    IN  {S \in SUBSET pending : Cardinality(S) = Min(BatchSize, Cardinality(pending))}

\* process_url, line 60: recipe_flag = is_recipe(url, title, description,
\* clean_text), for every row and every page
recipe_flag ==
    [r \in Rows, pg \in Pages |->
        is_recipe(Chars(Url(r)), Chars(pg.title), Chars(pg.description), Chars(pg.text))]

\* process_url: the 4-tuple it returns
process_url(r, cfg, resp, page) ==
    LET f == fetch_with_proxies(cfg, resp, page)
    IN  IF f.content = <<>>
        THEN [url_id |-> r, data |-> <<>>, error |-> "fetch_failed", proxy_used |-> f.proxy]
        ELSE IF f.content[1].broken
        THEN [url_id |-> r, data |-> <<>>, error |-> ParseError, proxy_used |-> NULL]
        ELSE LET pg == f.content[1]
             IN  [url_id |-> r,
                  data |-> << [parsed_text |-> pg.text, page_title |-> pg.title,
                               page_description |-> pg.description,
                               is_recipe |-> recipe_flag[r, pg],
                               proxy_used |-> f.proxy] >>,
                  error |-> NULL, proxy_used |-> f.proxy]

\* one UPDATE recipe.recipe_urls SET <set> WHERE id = r inside a transaction:
\* raises (UndefinedColumn) when it names a column the table does not have
ExecUpdate(tx, r, set) ==
    IF tx.raised THEN tx
    ELSE IF ~(DOMAIN set \subseteq Columns) THEN [tx EXCEPT !.raised = TRUE]
    ELSE [tx EXCEPT !.table[r] =
            [c \in DOMAIN tx.table[r] |-> IF c \in DOMAIN set THEN set[c] ELSE tx.table[r][c]]]

BoolStr(b) == IF b THEN "true" ELSE "false"

\* the success UPDATE of save_results
SuccessUpdate(res) ==
    LET d == res.data[1]
    IN  [parsed_text |-> d.parsed_text, page_title |-> d.page_title,
         page_description |-> d.page_description, is_recipe |-> BoolStr(d.is_recipe),
         crawl_status |-> "complete", proxy_used |-> d.proxy_used, last_crawled |-> "now"]

\* the failure UPDATE of save_results (the column name is the source's)
FailureUpdate(res) ==
    [crwal_status |-> "failed", crawl_failure_reason |-> res.error,
     proxy_used |-> res.proxy_used, last_crawled |-> "now"]

\* the for loop of save_results over the results not yet written
RECURSIVE SaveLoop(_, _, _)
SaveLoop(tx, todo, res) ==
    IF todo = {} THEN tx
    ELSE LET r == CHOOSE x \in todo : \A y \in todo : x <= y
             t == IF res[r][1].data # <<>>
                  THEN ExecUpdate(tx, r, SuccessUpdate(res[r][1]))
                  ELSE ExecUpdate(tx, r, FailureUpdate(res[r][1]))
         IN  SaveLoop(t, todo \ {r}, res)

\* save_results: one transaction; the table it leaves and whether it raised
\* (a statement that raises aborts the transaction: nothing is committed)
save_results(table, batch, res) ==
    LET tx == SaveLoop([table |-> table, raised |-> FALSE], batch, res)
    IN  IF tx.raised THEN [table |-> table, raised |-> TRUE]
        ELSE [table |-> tx.table, raised |-> FALSE]

\* run, lines 113-118: the claim query; an empty batch sleeps and retries
Claim(e) ==
    /\ cpc[e] = "claim"
    /\ \E S \in get_pending_urls(recipe_urls) :
          /\ urls' = [urls EXCEPT ![e] = S]
          /\ results' = [results EXCEPT ![e] = NoResults]
          /\ cpc' = [cpc EXCEPT ![e] = IF S = {} THEN "claim" ELSE "fetch"]
    /\ UNCHANGED <<tools, kills, proxy_cfg, store, fetched, holding, extraction>>

\* a semaphore that never makes a task wait
SemaphoreLocked_Never(held) == FALSE

\* asyncio.Semaphore.locked(): no permit is left
SemaphoreLocked(held) == Cardinality(held) >= MaxConcurrency

\* process_url, line 36: a task of the gather enters `async with
\* self.semaphore` when a permit is free
Acquire(e) ==
    /\ cpc[e] = "fetch"
    /\ ~SemaphoreLocked(holding[e])
    /\ \E r \in urls[e] :
          /\ results[e][r] = <<>>
          /\ r \notin holding[e]
          /\ holding' = [holding EXCEPT ![e] = @ \cup {r}]
    /\ UNCHANGED <<tools, kills, proxy_cfg, store, cpc, urls, results, fetched, extraction>>

\* run, lines 123-124: one task of the gather, inside the semaphore: the
\* fetch, the parsing and the classification; the return releases the permit
ProcessUrl(e) ==
    /\ cpc[e] = "fetch"
    /\ \E r \in urls[e] :
          /\ results[e][r] = <<>>
          /\ r \in holding[e]
          /\ holding' = [holding EXCEPT ![e] = @ \ {r}]
          /\ \E first \in [ProxyNames -> Responses], page \in Pages :
                results' = [results EXCEPT ![e][r] =
                              <<process_url(r, proxy_cfg, [p \in ProxyNames |-> <<first[p]>>], page)>>]
          /\ fetched' = fetched \cup {r}
    /\ UNCHANGED <<tools, kills, proxy_cfg, store, cpc, urls, extraction>>

\* run, line 127: save_results once the gather has every result; an exception
\* of save_results leaves run and ends the process
SaveResults(e) ==
    /\ cpc[e] = "fetch"
    /\ \A r \in urls[e] : results[e][r] # <<>>
    /\ LET s == save_results(recipe_urls, urls[e], results[e])
       IN  /\ recipe_urls' = s.table
           /\ cpc' = [cpc EXCEPT ![e] = IF s.raised THEN "crashed" ELSE "claim"]
           \* the batch of a finished iteration is not read again
           /\ urls' = [urls EXCEPT ![e] = IF s.raised THEN @ ELSE {}]
           /\ results' = [results EXCEPT ![e] = IF s.raised THEN @ ELSE NoResults]
    /\ UNCHANGED <<tools, kills, proxy_cfg, dishes, dish_ingredients, dish_attributes, fetched, holding, extraction>>

\* main: the service is started again after run ended with an exception
Restart(e) ==
    /\ cpc[e] = "crashed"
    /\ cpc' = [cpc EXCEPT ![e] = "claim"]
    /\ urls' = [urls EXCEPT ![e] = {}]
    /\ results' = [results EXCEPT ![e] = NoResults]
    /\ holding' = [holding EXCEPT ![e] = {}]
    /\ UNCHANGED <<tools, kills, proxy_cfg, store, fetched, extraction>>


(***************************************************************************)
(* Extraction engine: RecipeExtractor                                      *)
(***************************************************************************)
\* @retry(stop=stop_after_attempt(3), ...)
StopAfterAttempt == 3

\* the n-th ingredient of a recipe
Ingredient(n) == [ingredient |-> "ingredient", quantity |-> n]

\* DishModel.ingredients: the lists of the first n ingredients (None is
\* handled as the empty list)
IngrLists == {[i \in 1..n |-> Ingredient(i)] : n \in 0..MaxIngr}

\* the DishModel objects the LLM returns: an extraction with ingredients and
\* attributes, or an empty one (no ingredients, attributes None)
DishModels ==
    {[dish_name |-> "Apple Pie", ingredients |-> l,
      attributes |-> IF l = <<>> THEN NULL ELSE "crisp"] : l \in IngrLists}

\* str(e) of the errors the LLM call raises
LlmErrors == {"Request timed out."}

\* what one call of client.beta.chat.completions.parse does: a parsed dish,
\* a completion without a parsed object, or an exception
LlmOutcomes ==
    [kind : {"dish"}, dish : DishModels, msg : {NULL}]
      \cup {[kind |-> "none", dish |-> <<>>, msg |-> NULL]}
      \cup [kind : {"raise"}, dish : {<<>>}, msg : LlmErrors]

\* get_pending_recipes: the rows the query selects
Eligible(table) ==
    {r \in DOMAIN table : /\ table[r].is_recipe = "true"
                  /\ table[r].crawl_status = "complete"
                  /\ table[r].parsed_text # NULL
                  /\ table[r].llm_status = "pending"}

\* the orderings of a set of rows
Orderings(S) ==
    {q \in [1..Cardinality(S) -> S] : \A i, j \in 1..Cardinality(S) : i # j => q[i] # q[j]}

\* get_pending_recipes: the batches it can return (ORDER BY last_crawled DESC
\* LIMIT n; the timestamps are not modelled, so any order of any n eligible rows)
get_pending_recipes(table) ==
    LET el == Eligible(table)
        n  == Min(BatchSize, Cardinality(el))
    IN  UNION {Orderings(S) : S \in {T \in SUBSET el : Cardinality(T) = n}}

\* get_pending_recipes, the SELECT list: id, parsed_text, title, description
recipe_data(table, r) == <<r, table[r].parsed_text, table[r].title, table[r].description>>

\* `x or ''`
OrEmpty(x) == IF x = NULL THEN "" ELSE x

\* extract_recipe, lines 65-71: the user message assembled from the row
\* (truncate_content leaves a text of 8000 characters or fewer as it is)
user_message(rd) ==
    [title |-> OrEmpty(rd[3]), description |-> OrEmpty(rd[4]), text |-> rd[2]]

\* update_llm_status writing the status to crawl_status as well
update_llm_status_BothStatusColumns(table, url_id, status, failure_reason) ==
    [table EXCEPT ![url_id].llm_status = status,
                  ![url_id].crawl_status = status,
                  ![url_id].llm_failure_reason = failure_reason]

\* update_llm_status
update_llm_status(table, url_id, status, failure_reason) ==
    [table EXCEPT ![url_id].llm_status = status,
                  ![url_id].llm_failure_reason = failure_reason]

\* the body of extract_recipe for one call: the try returns the parsed
\* object, the except clause logs the error and returns (url_id, None)
extract_recipe_body(url_id, outcome) ==
    IF outcome.kind = "dish"
    THEN [raised |-> FALSE, is_tuple |-> TRUE, url_id |-> url_id, dish |-> <<outcome.dish>>,
          exc |-> NULL]
    ELSE [raised |-> FALSE, is_tuple |-> TRUE, url_id |-> url_id, dish |-> <<>>, exc |-> NULL]

\* the @retry wrapper after the attempt-th call of the body: <<>> = call the
\* body again, otherwise the result the task hands to gather
\* (return_exceptions=True turns a RetryError into a non-tuple result)
extract_recipe(url_id, outcome, attempt) ==
    LET b == extract_recipe_body(url_id, outcome)
    IN  IF ~b.raised THEN <<b>>
        ELSE IF attempt >= StopAfterAttempt
        THEN << [raised |-> TRUE, is_tuple |-> FALSE, url_id |-> url_id, dish |-> <<>>,
                 exc |-> NULL] >>
        ELSE <<>>

\* the ingredient rows save_dish leaves
SavedIngredients(old, dish) ==
    IF dish.ingredients # <<>> THEN dish.ingredients ELSE old

\* the attribute row save_dish leaves
SavedAttributes(old, dish) ==
    IF dish.attributes # NULL THEN dish.attributes ELSE old

\* run, lines 176-180: the claim query; an empty batch sleeps and retries
XClaim ==
    /\ xpc = "claim"
    /\ \E q \in get_pending_recipes(recipe_urls) :
          /\ recipes' = q
          /\ xpc' = IF q = <<>> THEN "claim" ELSE "extract"
    /\ xresults' = NoResults
    /\ llm_calls' = [r \in Rows |-> <<>>]
    /\ UNCHANGED <<tools, kills, proxy_cfg, store, crawl, extracted, xholding>>

InBatch(r) == \E i \in DOMAIN recipes : recipes[i] = r

\* extract_recipe: a task of the gather enters `async with self.semaphore`
\* when a permit is free
XAcquire ==
    /\ xpc = "extract"
    /\ ~SemaphoreLocked(xholding)
    /\ \E r \in Rows :
          /\ InBatch(r)
          /\ xresults[r] = <<>>
          /\ r \notin xholding
          /\ xholding' = xholding \cup {r}
    /\ UNCHANGED <<tools, kills, proxy_cfg, store, crawl, xpc, recipes, xresults, llm_calls,
                   extracted>>

\* run, lines 185-186: one LLM call of one task of the gather, inside the
\* semaphore (the return releases the permit); the loop over the results
\* starts when every task has returned
ExtractRecipe ==
    /\ xpc = "extract"
    /\ \E r \in Rows : \E o \in LlmOutcomes :
          LET n == Len(llm_calls[r]) + 1
          IN  /\ InBatch(r)
              /\ xresults[r] = <<>>
              /\ r \in xholding
              /\ xholding' = xholding \ {r}
              /\ xresults' = [xresults EXCEPT ![r] = extract_recipe(r, o, n)]
              /\ llm_calls' = [llm_calls EXCEPT ![r] = Append(@, IF o.kind = "raise" THEN o.msg ELSE o.kind)]
              /\ extracted' = extracted \cup {r}
    /\ xpc' = IF \A r \in Rows : InBatch(r) => xresults'[r] # <<>> THEN "commit" ELSE "extract"
    /\ UNCHANGED <<tools, kills, proxy_cfg, store, crawl, recipes>>

\* the for loop of run moves on to the next result (recipes holds the rows
\* whose results are still to be handled); a handled result is not read again
AfterResult ==
    /\ recipes' = Tail(recipes)
    /\ xresults' = [xresults EXCEPT ![Head(recipes)] = <<>>]
    /\ llm_calls' = [llm_calls EXCEPT ![Head(recipes)] = <<>>]
    /\ xpc' = IF Tail(recipes) = <<>> THEN "claim" ELSE "commit"

\* str(e) of the exceptions save_dish raises: a message, or no message
\* (str(Exception()) is the empty string)
SaveErrors == {"save failed", ""}

\* save_dish without the upsert of the dish row
save_dish_NoDishRow(d, di, da, url_id, dish) ==
    [dishes           |-> d,
     dish_ingredients |-> [di EXCEPT ![url_id] = SavedIngredients(@, dish)],
     dish_attributes  |-> [da EXCEPT ![url_id] = SavedAttributes(@, dish)]]

\* save_dish with the first ingredient only
save_dish_FirstIngredient(d, di, da, url_id, dish) ==
    [dishes           |-> [d EXCEPT ![url_id] = dish.dish_name],
     dish_ingredients |-> [di EXCEPT ![url_id] = IF dish.ingredients = <<>> THEN <<>>
                                                   ELSE <<dish.ingredients[1]>>],
     dish_attributes  |-> [da EXCEPT ![url_id] = SavedAttributes(@, dish)]]

\* save_dish: the three tables after its commit
save_dish(d, di, da, url_id, dish) ==
    [dishes           |-> [d EXCEPT ![url_id] = dish.dish_name],
     dish_ingredients |-> [di EXCEPT ![url_id] = SavedIngredients(@, dish)],
     dish_attributes  |-> [da EXCEPT ![url_id] = SavedAttributes(@, dish)]]

\* save_dish with the dish upsert committed on its own
SaveDish_DishCommittedFirst ==
    /\ xpc = "commit"
    /\ LET res == xresults[Head(recipes)][1]
       IN  /\ res.is_tuple /\ res.dish # <<>>
           /\ dishes' = [dishes EXCEPT ![res.url_id] = res.dish[1].dish_name]
           /\ UNCHANGED <<dish_ingredients, dish_attributes>>
           /\ xpc' = "save_failed"
           /\ \E e \in SaveErrors :
                 xresults' = [xresults EXCEPT ![Head(recipes)][1].exc = e]
    /\ UNCHANGED <<tools, kills, proxy_cfg, recipe_urls, crawl, recipes, llm_calls, extracted, xholding>>

\* run, line 196: save_dish, one transaction (it commits, or raises and
\* rolls back)
SaveDish ==
    /\ xpc = "commit"
    /\ LET res == xresults[Head(recipes)][1]
       IN  /\ res.is_tuple /\ res.dish # <<>>
           /\ \E ok \in BOOLEAN :
                 IF ok
                 THEN LET t == save_dish(dishes, dish_ingredients, dish_attributes,
                                         res.url_id, res.dish[1])
                      IN  /\ dishes' = t.dishes
                          /\ dish_ingredients' = t.dish_ingredients
                          /\ dish_attributes' = t.dish_attributes
                          /\ xpc' = "saved"
                          /\ UNCHANGED xresults
                 ELSE /\ UNCHANGED <<dishes, dish_ingredients, dish_attributes>>
                      /\ xpc' = "save_failed"
                      /\ \E e \in SaveErrors :
                            xresults' = [xresults EXCEPT ![Head(recipes)][1].exc = e]
    /\ UNCHANGED <<tools, kills, proxy_cfg, recipe_urls, crawl, recipes, llm_calls, extracted, xholding>>

\* run, line 197: update_llm_status(url_id, 'complete')
MarkComplete ==
    /\ xpc = "saved"
    /\ recipe_urls' = update_llm_status(recipe_urls, Head(recipes), "complete", NULL)
    /\ AfterResult
    /\ UNCHANGED <<tools, kills, proxy_cfg, dishes, dish_ingredients, dish_attributes, crawl, extracted, xholding>>

\* run, lines 199-202: update_llm_status(url_id, 'failed', str(e))
MarkSaveFailed ==
    /\ xpc = "save_failed"
    /\ recipe_urls' = update_llm_status(recipe_urls, Head(recipes), "failed",
                                        xresults[Head(recipes)][1].exc)
    /\ AfterResult
    /\ UNCHANGED <<tools, kills, proxy_cfg, dishes, dish_ingredients, dish_attributes, crawl, extracted, xholding>>

\* run, lines 203-209: a result without a dish is marked failed; a result
\* that is not a tuple is only logged
MarkLlmFailed ==
    /\ xpc = "commit"
    /\ LET res == xresults[Head(recipes)][1]
       IN  /\ ~(res.is_tuple /\ res.dish # <<>>)
           /\ recipe_urls' = IF res.is_tuple
                             THEN update_llm_status(recipe_urls, res.url_id, "failed",
                                                    "OpenAI extraction failed")
                             ELSE recipe_urls
    /\ AfterResult
    /\ UNCHANGED <<tools, kills, proxy_cfg, dishes, dish_ingredients, dish_attributes, crawl, extracted, xholding>>

\* the extraction process is terminated from outside and main starts it again
XTerminate ==
    /\ xpc # "claim"
    /\ kills < MaxKills
    /\ kills' = kills + 1
    /\ xpc' = "claim"
    /\ recipes' = <<>>
    /\ xresults' = NoResults
    /\ llm_calls' = [r \in Rows |-> <<>>]
    /\ xholding' = {}
    /\ UNCHANGED <<tools, proxy_cfg, store, crawl, extracted>>

\* the crawl process is terminated from outside and main starts it again
Terminate(e) ==
    /\ cpc[e] = "fetch"
    /\ kills < MaxKills
    /\ kills' = kills + 1
    /\ cpc' = [cpc EXCEPT ![e] = "claim"]
    /\ urls' = [urls EXCEPT ![e] = {}]
    /\ results' = [results EXCEPT ![e] = NoResults]
    /\ holding' = [holding EXCEPT ![e] = {}]
    /\ UNCHANGED <<tools, proxy_cfg, store, fetched, extraction>>

(***************************************************************************)
(* Specification                                                           *)
(***************************************************************************)
\* the walker at rest: no SitemapCrawler yet
InitWalker ==
    /\ wpc = "idle"
    /\ sitemaps_to_process = <<>>
    /\ stack = <<>>
    /\ processed_sitemaps = {}
    /\ all_urls = <<>>
    /\ unique_urls = <<>>
    /\ fetch_count = <<>>
    /\ site_status = "pending"

\* the components outside the engines at rest
InitTools ==
    /\ raw_url = <<>>
    /\ normalized = <<>>
    /\ web = <<>>
    /\ InitWalker
    /\ fetch_args = <<>>
    /\ fetch_result = <<>>
    /\ classify_args = <<>>
    /\ classify_result = <<>>
    /\ truncate_args = <<>>
    /\ truncate_result = <<>>

\* the store after the sitemap walker has inserted the rows, no engine started
InitStore ==
    /\ InitTools
    /\ proxy_cfg = [p \in ProxyNames |-> TRUE]
    /\ recipe_urls = [r \in Rows |-> NewRow]
    /\ dishes = [r \in Rows |-> NULL]
    /\ dish_ingredients = [r \in Rows |-> <<>>]
    /\ dish_attributes = [r \in Rows |-> NULL]
    /\ urls = [e \in CrawlEngines |-> {}]
    /\ results = [e \in CrawlEngines |-> NoResults]
    /\ fetched = {}
    /\ holding = [e \in CrawlEngines |-> {}]
    /\ xpc = "claim"
    /\ recipes = <<>>
    /\ xresults = NoResults
    /\ llm_calls = [r \in Rows |-> <<>>]
    /\ extracted = {}
    /\ xholding = {}
    /\ kills = 0

\* one crawl engine and one extraction engine are started
Init ==
    /\ InitStore
    /\ cpc = [e \in CrawlEngines |-> IF e = 1 THEN "claim" ELSE "off"]

\* the steps of a running pipeline: the two engines, and main started again
\* after run ended with an exception
Next ==
    \/ Claim(1)
    \/ Acquire(1)
    \/ ProcessUrl(1)
    \/ SaveResults(1)
    \/ Restart(1)
    \/ XClaim
    \/ XAcquire
    \/ ExtractRecipe
    \/ SaveDish
    \/ MarkComplete
    \/ MarkSaveFailed
    \/ MarkLlmFailed

\* the running pipeline (no process is terminated from outside)
Spec == Init /\ [][Next]_vars

\* the running pipeline under the scheduling of asyncio: a task that waits
\* for a free permit gets it, and a task inside the semaphore returns (the
\* fetch ends after ClientTimeout(total=10), the LLM call after timeout=60.0)
SpecFair ==
    /\ Init /\ [][Next]_vars
    /\ WF_vars(Acquire(1)) /\ WF_vars(ProcessUrl(1))
    /\ WF_vars(XAcquire) /\ WF_vars(ExtractRecipe)

\* the running pipeline with every step of both engines taken when it stays
\* possible: the store answers, the collaborators return, and a service
\* that ended with an exception is started again
SpecLive ==
    /\ Init /\ [][Next]_vars
    /\ WF_vars(Claim(1)) /\ WF_vars(Acquire(1)) /\ WF_vars(ProcessUrl(1))
    /\ WF_vars(SaveResults(1)) /\ WF_vars(Restart(1))
    /\ WF_vars(XClaim) /\ WF_vars(XAcquire) /\ WF_vars(ExtractRecipe)
    /\ WF_vars(SaveDish) /\ WF_vars(MarkComplete) /\ WF_vars(MarkSaveFailed)
    /\ WF_vars(MarkLlmFailed)

NextKill ==
    \/ Claim(1)
    \/ Acquire(1)
    \/ ProcessUrl(1)
    \/ SaveResults(1)
    \/ Restart(1)
    \/ Terminate(1)
    \/ XClaim
    \/ XAcquire
    \/ ExtractRecipe
    \/ SaveDish
    \/ MarkComplete
    \/ MarkSaveFailed
    \/ MarkLlmFailed
    \/ XTerminate

\* the pipeline, its processes terminated from outside at most MaxKills times
SpecKill == Init /\ [][NextKill]_vars

\* two crawl engine instances against the same store
InitConcurrent ==
    /\ InitStore
    /\ cpc = [e \in CrawlEngines |-> "claim"]

NextConcurrent ==
    \/ \E e \in CrawlEngines : Claim(e)
    \/ \E e \in CrawlEngines : Acquire(e)
    \/ \E e \in CrawlEngines : ProcessUrl(e)
    \/ \E e \in CrawlEngines : SaveResults(e)
    \/ \E e \in CrawlEngines : Restart(e)

SpecConcurrent == InitConcurrent /\ [][NextConcurrent]_vars

(***************************************************************************)
(* The pipeline while the store is unreachable at times: a statement or     *)
(* get_db_connection raises psycopg2.OperationalError                       *)
(***************************************************************************)
\* ContentProcessor.run, line 113: get_pending_urls raises; run has no
\* handler, the exception leaves run and main
ClaimRaises(e) ==
    /\ cpc[e] = "claim"
    /\ cpc' = [cpc EXCEPT ![e] = "crashed"]
    /\ UNCHANGED <<tools, kills, proxy_cfg, store, urls, results, fetched, holding, extraction>>

\* ContentProcessor.run, line 127: save_results raises before its commit
SaveResultsRaises(e) ==
    /\ cpc[e] = "fetch"
    /\ \A r \in urls[e] : results[e][r] # <<>>
    /\ cpc' = [cpc EXCEPT ![e] = "crashed"]
    /\ UNCHANGED <<tools, kills, proxy_cfg, store, urls, results, fetched, holding, extraction>>

\* RecipeExtractor.run, line 176: get_pending_recipes raises
XClaimRaises ==
    /\ xpc = "claim"
    /\ xpc' = "crashed"
    /\ UNCHANGED <<tools, kills, proxy_cfg, store, crawl, recipes, xresults, llm_calls,
                   extracted, xholding>>

\* RecipeExtractor.run, line 197: update_llm_status(url_id, 'complete')
\* raises inside the try: the except clause of line 199 takes over
MarkCompleteRaises ==
    /\ xpc = "saved"
    /\ xpc' = "save_failed"
    /\ \E e \in SaveErrors : xresults' = [xresults EXCEPT ![Head(recipes)][1].exc = e]
    /\ UNCHANGED <<tools, kills, proxy_cfg, store, crawl, recipes, llm_calls,
                   extracted, xholding>>

\* RecipeExtractor.run, lines 201 and 204: update_llm_status(url_id,
\* 'failed', ...) raises outside any try
MarkFailedRaises ==
    /\ \/ xpc = "save_failed"
       \/ /\ xpc = "commit"
          /\ xresults[Head(recipes)][1].is_tuple
          /\ xresults[Head(recipes)][1].dish = <<>>
    /\ xpc' = "crashed"
    /\ UNCHANGED <<tools, kills, proxy_cfg, store, crawl, recipes, xresults, llm_calls,
                   extracted, xholding>>

\* main: the extraction service is started again after run ended with an
\* exception
XRestart ==
    /\ xpc = "crashed"
    /\ xpc' = "claim"
    /\ recipes' = <<>>
    /\ xresults' = NoResults
    /\ llm_calls' = [r \in Rows |-> <<>>]
    /\ xholding' = {}
    /\ UNCHANGED <<tools, kills, proxy_cfg, store, crawl, extracted>>

NextStore ==
    \/ Next
    \/ ClaimRaises(1)
    \/ SaveResultsRaises(1)
    \/ XClaimRaises
    \/ MarkCompleteRaises
    \/ MarkFailedRaises
    \/ XRestart

SpecStore == Init /\ [][NextStore]_vars

(***************************************************************************)
(* The URL normalizer applied to a URL and to its own result                *)
(***************************************************************************)
\* longest URL handed to the normalizer
MaxUrlLen == 3
\* the characters of those URLs
UrlChars == {"https", "X", ":", "/", ";", "?", "#", "["}
Urls == UNION {[1..n -> UrlChars] : n \in 0..MaxUrlLen}

Last(q) == q[Len(q)]

\* the engines at rest, the tables empty
InitIdle ==
    /\ proxy_cfg = [p \in ProxyNames |-> TRUE]
    /\ recipe_urls = <<>>
    /\ dishes = [r \in Rows |-> NULL]
    /\ dish_ingredients = [r \in Rows |-> <<>>]
    /\ dish_attributes = [r \in Rows |-> NULL]
    /\ cpc = [e \in CrawlEngines |-> "off"]
    /\ urls = [e \in CrawlEngines |-> {}]
    /\ results = [e \in CrawlEngines |-> NoResults]
    /\ fetched = {}
    /\ holding = [e \in CrawlEngines |-> {}]
    /\ xpc = "off"
    /\ recipes = <<>>
    /\ xresults = NoResults
    /\ llm_calls = [r \in Rows |-> <<>>]
    /\ extracted = {}
    /\ xholding = {}
    /\ kills = 0

InitNormalize ==
    /\ InitIdle
    /\ raw_url \in Urls
    /\ normalized = <<>>
    /\ web = <<>>
    /\ InitWalker
    /\ fetch_args = <<>>
    /\ fetch_result = <<>>
    /\ classify_args = <<>>
    /\ classify_result = <<>>
    /\ truncate_args = <<>>
    /\ truncate_result = <<>>

\* normalize_url(raw_url), then normalize_url of the result
Normalize ==
    /\ Len(normalized) < 2
    /\ normalized' = Append(normalized, normalize_url(IF normalized = <<>> THEN raw_url
                                                       ELSE Last(normalized)))
    /\ UNCHANGED <<raw_url, walker, fetcher, classifier, truncator, proxy_cfg, store, crawl, extraction, kills>>

NextNormalize == Normalize

SpecNormalize == InitNormalize /\ [][NextNormalize]_vars

(***************************************************************************)
(* Sitemap walker: SitemapCrawler (sitemap_processor.py)                    *)
(***************************************************************************)
\* SitemapCrawler(max_depth=3)
max_depth == 3
\* most <loc> entries of one sitemap document
MaxLocs == 2

\* process_site(site_url): the site that is walked
SiteUrl == <<"https", ":", "/", "/", "x", ".com">>

\* get_all_urls_from_site: the four standard locations
StandardLocations(site_url) ==
    LET base_url == rstrip(site_url)
    IN  << base_url \o <<"/", "sitemap", ".xml">>,
           base_url \o <<"/", "sitemap", "_index", ".xml">>,
           base_url \o <<"/", "sitemap">>,
           base_url \o <<"/", "sitemap", "s", ".xml">> >>

\* get_all_urls_from_site: sitemaps_to_process, the manual sitemaps first
InitialSitemaps(site_url, manual_sitemaps) == manual_sitemaps \o StandardLocations(site_url)

\* the sitemap URLs under which the site serves a document
SitemapNodes == {StandardLocations(SiteUrl)[1], StandardLocations(SiteUrl)[2]}

\* the page URLs the sitemaps list: the first two differ in letter case and
\* a trailing slash only
PageUrls ==
    { <<"https", ":", "/", "/", "x", ".com", "/", "x">>,
      <<"https", ":", "/", "/", "X", ".com", "/", "x", "/">>,
      <<"https", ":", "/", "/", "x", ".com", "/", "s">> }

\* page URLs that is_valid_url rejects: a scheme that is not http(s), a host
\* without a public suffix, a path with an excluded extension
InvalidUrls ==
    { <<"ftp", ":", "/", "/", "x", ".com", "/", "x">>,
      <<"https", ":", "/", "/", "x", "/", "x">>,
      <<"https", ":", "/", "/", "x", ".com", "/", "x", ".xml">> }

\* <loc> URLs that are valid page URLs but for the word "sitemap" in them,
\* in lower, mixed and upper case
SitemapLikeUrls ==
    { <<"https", ":", "/", "/", "x", ".com", "/", "x", "-", "sitemap">>,
      <<"https", ":", "/", "/", "x", ".com", "/", "Sitemap">>,
      <<"https", ":", "/", "/", "x", ".com", "/", "x", "?", "SITEMAP">> }

\* the lists of up to MaxLocs different elements of S
\* one page written in several ways: plain, with http, in upper case, with
\* a query string, with a fragment, with a trailing slash
PageVariants ==
    { <<"https", ":", "/", "/", "x", ".com", "/", "p">>,
      <<"http", ":", "/", "/", "x", ".com", "/", "p">>,
      <<"https", ":", "/", "/", "X", ".com", "/", "p">>,
      <<"https", ":", "/", "/", "x", ".com", "/", "p", "?", "q">>,
      <<"https", ":", "/", "/", "x", ".com", "/", "p", "#", "f">>,
      <<"https", ":", "/", "/", "x", ".com", "/", "p", "/">> }

\* the root of the site without and with its trailing slash
RootVariants ==
    { <<"https", ":", "/", "/", "x", ".com">>,
      <<"https", ":", "/", "/", "x", ".com", "/">> }

LocLists(S) ==
    UNION { {l \in [1..n -> S] : \A i, j \in 1..n : i # j => l[i] # l[j]} : n \in 0..MaxLocs }

\* no document: every proxy fails for the URL
NoDoc == [kind |-> "none", locs |-> <<>>]

\* a document on which _extract_from_sitemap raises
BrokenDoc == [kind |-> "broken", locs |-> <<>>]

\* the documents: a <sitemapindex> of <sitemap><loc> entries or a <urlset>
\* of <url><loc> entries (a document with neither is scanned for bare <loc>
\* entries under the rule of the urlset)
Docs ==
    {NoDoc} \cup [kind : {"sitemapindex"}, locs : LocLists(SitemapNodes)]
            \cup [kind : {"urlset"}, locs : LocLists(SitemapNodes \cup PageUrls)]

\* fetch_sitemap_with_fallback as the walker sees it: the decoded document,
\* or None (NoDoc) when no proxy delivers one
fetch_sitemap_with_fallback(w, sitemap_url) ==
    IF sitemap_url \in DOMAIN w THEN w[sitemap_url] ELSE NoDoc

\* "sitemap" in url, without lower()
IsSitemapLoc_CaseSensitive(url) == Contains(url, "sitemap")

\* "sitemap" in url.lower()
IsSitemapLoc(url) == Contains(lower(url), "sitemap")
IsPageLoc(url) == ~IsSitemapLoc(url)

\* _extract_from_sitemap: (nested_sitemaps, urls_data)
extract_from_sitemap(content, sitemap_url) ==
    IF content.kind = "sitemapindex"
    THEN [nested_sitemaps |-> content.locs, urls_data |-> <<>>]
    ELSE LET pages == SelectSeq(content.locs, IsPageLoc)
         IN  [nested_sitemaps |-> SelectSeq(content.locs, IsSitemapLoc),
              urls_data |-> [i \in 1..Len(pages) |->
                               [original_url |-> pages[i], sitemap_url |-> sitemap_url]]]

\* line 82 with the depth test one level late
SkipSitemap_OneLevelLate(sitemap_url, depth, processed) ==
    sitemap_url \in processed \/ depth > max_depth + 1

\* line 82 without the depth test
SkipSitemap_NoDepthTest(sitemap_url, depth, processed) ==
    sitemap_url \in processed

\* _process_sitemap_recursive, line 82: the call returns [] at once
SkipSitemap(sitemap_url, depth, processed) ==
    sitemap_url \in processed \/ depth > max_depth

\* _process_sitemap_recursive(sitemap_url, depth) up to its first nested
\* call: entered = FALSE when it returns [] (lines 82-90, and the except
\* clause of lines 101-103 when the parsing raises), otherwise the call's
\* local variables
EnterSitemap(w, processed, sitemap_url, depth) ==
    LET content == fetch_sitemap_with_fallback(w, sitemap_url)
    IN  IF SkipSitemap(sitemap_url, depth, processed) \/ content = NoDoc
           \/ content = BrokenDoc
        THEN [entered |-> FALSE, sitemap_url |-> sitemap_url, depth |-> depth,
              nested_sitemaps |-> <<>>, urls |-> <<>>]
        ELSE LET x == extract_from_sitemap(content, sitemap_url)
             IN  [entered |-> TRUE, sitemap_url |-> sitemap_url, depth |-> depth,
                  nested_sitemaps |-> x.nested_sitemaps, urls |-> x.urls_data]

\* normalize_url on the URLs the walker collects (the values are computed
\* once, not at every use)
NormalizedUrl ==
    [u \in PageUrls \cup InvalidUrls \cup SitemapLikeUrls \cup PageVariants \cup RootVariants
        |-> normalize_url(u)]

\* lines 67-75 with the original URL as the key of seen
RECURSIVE UniqueUrls_ByOriginalUrl(_, _, _, _)
UniqueUrls_ByOriginalUrl(all, k, seen, unique) ==
    IF k > Len(all) THEN unique
    ELSE IF all[k].original_url \notin seen
    THEN UniqueUrls_ByOriginalUrl(all, k + 1, seen \cup {all[k].original_url},
                    Append(unique, [original_url |-> all[k].original_url,
                                    sitemap_url |-> all[k].sitemap_url,
                                    url |-> NormalizedUrl[all[k].original_url]]))
    ELSE UniqueUrls_ByOriginalUrl(all, k + 1, seen, unique)

\* get_all_urls_from_site, lines 67-75: remove duplicates, preserving order;
\* the for loop from the k-th entry of all_urls on
RECURSIVE UniqueUrls(_, _, _, _)
UniqueUrls(all, k, seen, unique) ==
    IF k > Len(all) THEN unique
    ELSE IF NormalizedUrl[all[k].original_url] \notin seen
    THEN UniqueUrls(all, k + 1, seen \cup {NormalizedUrl[all[k].original_url]},
                    Append(unique, [original_url |-> all[k].original_url,
                                    sitemap_url |-> all[k].sitemap_url,
                                    url |-> NormalizedUrl[all[k].original_url]]))
    ELSE UniqueUrls(all, k + 1, seen, unique)

\* process_site, line 208-209: a new SitemapCrawler; get_all_urls_from_site
\* lines 41-60.  web is the site as this walk finds it.
GetAllUrlsFromSite(W) ==
    /\ wpc = "idle"
    /\ web' \in W
    /\ wpc' = "walk"
    /\ sitemaps_to_process' = InitialSitemaps(SiteUrl, <<>>)
    /\ processed_sitemaps' = {}
    /\ stack' = <<>>
    /\ all_urls' = <<>>
    /\ unique_urls' = <<>>
    /\ fetch_count' = [u \in SitemapNodes |-> 0]
    /\ UNCHANGED <<site_status, normalizer, fetcher, classifier, truncator, proxy_cfg, store, crawl, extraction, kills>>

\* the call of a sitemap: counted when the document is fetched and parsed
Entered(c) ==
    /\ stack' = IF c.entered THEN Append(stack, c) ELSE stack
    /\ fetch_count' = IF c.entered THEN [fetch_count EXCEPT ![c.sitemap_url] = @ + 1]
                      ELSE fetch_count

\* the for loop of the seeds ended by the first sitemap that fails
ProcessSeed_StopAtFailure ==
    /\ wpc = "walk" /\ stack = <<>> /\ sitemaps_to_process # <<>>
    /\ LET c == EnterSitemap(web, processed_sitemaps, Head(sitemaps_to_process), 0)
       IN  /\ sitemaps_to_process' = IF c.entered THEN Tail(sitemaps_to_process) ELSE <<>>
           /\ Entered(c)
    /\ UNCHANGED <<web, wpc, processed_sitemaps, all_urls, unique_urls,
                   site_status, normalizer, fetcher, classifier, truncator, proxy_cfg, store, crawl, extraction, kills>>

\* get_all_urls_from_site, lines 63-64: the for loop calls
\* _process_sitemap_recursive(sitemap_url, 0) for the next seed
ProcessSeed ==
    /\ wpc = "walk" /\ stack = <<>> /\ sitemaps_to_process # <<>>
    /\ sitemaps_to_process' = Tail(sitemaps_to_process)
    /\ Entered(EnterSitemap(web, processed_sitemaps, Head(sitemaps_to_process), 0))
    /\ UNCHANGED <<web, wpc, processed_sitemaps, all_urls, unique_urls,
                   site_status, normalizer, fetcher, classifier, truncator, proxy_cfg, store, crawl, extraction, kills>>

\* _process_sitemap_recursive, lines 95-96: the innermost call calls itself
\* for its next nested sitemap
ProcessNested ==
    /\ wpc = "walk" /\ stack # <<>> /\ Last(stack).nested_sitemaps # <<>>
    /\ LET top  == Last(stack)
           rest == [stack EXCEPT ![Len(stack)].nested_sitemaps = Tail(@)]
           c    == EnterSitemap(web, processed_sitemaps, Head(top.nested_sitemaps), top.depth + 1)
       IN  /\ stack' = IF c.entered THEN Append(rest, c) ELSE rest
           /\ fetch_count' = IF c.entered THEN [fetch_count EXCEPT ![c.sitemap_url] = @ + 1]
                             ELSE fetch_count
    /\ UNCHANGED <<web, wpc, sitemaps_to_process, processed_sitemaps, all_urls, unique_urls,
                   site_status, normalizer, fetcher, classifier, truncator, proxy_cfg, store, crawl, extraction, kills>>

\* _process_sitemap_recursive, lines 98-99 (and 96 / 65 of the caller): the
\* innermost call marks its sitemap processed and returns its urls, which
\* the caller appends to its own
ReturnUrls ==
    /\ wpc = "walk" /\ stack # <<>> /\ Last(stack).nested_sitemaps = <<>>
    /\ LET top == Last(stack)
           n   == Len(stack)
       IN  /\ processed_sitemaps' = processed_sitemaps \cup {top.sitemap_url}
           /\ IF n = 1
              THEN /\ stack' = <<>>
                   /\ all_urls' = all_urls \o top.urls
              ELSE /\ stack' = [SubSeq(stack, 1, n - 1) EXCEPT ![n - 1].urls = @ \o top.urls]
                   /\ UNCHANGED all_urls
    /\ UNCHANGED <<web, wpc, sitemaps_to_process, unique_urls, fetch_count,
                   site_status, normalizer, fetcher, classifier, truncator, proxy_cfg, store, crawl, extraction, kills>>

\* get_all_urls_from_site, lines 67-78: the result
ReturnUniqueUrls ==
    /\ wpc = "walk" /\ stack = <<>> /\ sitemaps_to_process = <<>>
    /\ unique_urls' = UniqueUrls(all_urls, 1, {}, <<>>)
    /\ wpc' = "done"
    /\ UNCHANGED <<web, sitemaps_to_process, stack, processed_sitemaps, all_urls, fetch_count,
                   site_status, normalizer, fetcher, classifier, truncator, proxy_cfg, store, crawl, extraction, kills>>

\* the site_id process_site passes on
SiteId == 1

\* the INSERT without its ON CONFLICT clause
InsertOnConflictDoNothing_NoConflictClause(table, url_data) ==
    Append(table,
           [c \in DOMAIN NewRow \cup {"original_url", "url", "site_id", "sitemap_url"} |->
               CASE c = "original_url" -> url_data.original_url
                 [] c = "url"          -> url_data.url
                 [] c = "site_id"      -> SiteId
                 [] c = "sitemap_url"  -> url_data.sitemap_url
                 [] OTHER              -> NewRow[c]])

\* the INSERT with the listed URL in the url column
InsertOnConflictDoNothing_UnnormalizedUrl(table, url_data) ==
    IF \E r \in DOMAIN table : table[r].url = url_data.original_url THEN table
    ELSE Append(table,
                [c \in DOMAIN NewRow \cup {"original_url", "url", "site_id", "sitemap_url"} |->
                    CASE c = "original_url" -> url_data.original_url
                      [] c = "url"          -> url_data.original_url
                      [] c = "site_id"      -> SiteId
                      [] c = "sitemap_url"  -> url_data.sitemap_url
                      [] OTHER              -> NewRow[c]])

\* the INSERT of save_urls_to_database for one VALUES tuple: a new row with
\* the next id and the defaults of the other columns, or nothing when a row
\* with this url exists (ON CONFLICT (url) DO NOTHING)
InsertOnConflictDoNothing(table, url_data) ==
    IF \E r \in DOMAIN table : table[r].url = url_data.url THEN table
    ELSE Append(table,
                [c \in DOMAIN NewRow \cup {"original_url", "url", "site_id", "sitemap_url"} |->
                    CASE c = "original_url" -> url_data.original_url
                      [] c = "url"          -> url_data.url
                      [] c = "site_id"      -> SiteId
                      [] c = "sitemap_url"  -> url_data.sitemap_url
                      [] OTHER              -> NewRow[c]])

\* save_urls_to_database without the test of is_valid_url
RECURSIVE InsertUrls_NoValidation(_, _, _)
InsertUrls_NoValidation(table, urls_data, k) ==
    IF k > Len(urls_data) THEN table
    ELSE InsertUrls_NoValidation(InsertOnConflictDoNothing(table, urls_data[k]), urls_data, k + 1)

\* save_urls_to_database, lines 157-176: the valid URLs are inserted, from
\* the k-th entry of urls_data on
RECURSIVE InsertUrls(_, _, _)
InsertUrls(table, urls_data, k) ==
    IF k > Len(urls_data) THEN table
    ELSE IF is_valid_url(urls_data[k].original_url)
    THEN InsertUrls(InsertOnConflictDoNothing(table, urls_data[k]), urls_data, k + 1)
    ELSE InsertUrls(table, urls_data, k + 1)

\* process_site, line 212: save_urls_to_database(urls_data, site_id), one
\* transaction: the INSERT and the UPDATE of the site
SaveUrlsToDatabase ==
    /\ wpc = "done"
    /\ recipe_urls' = InsertUrls(recipe_urls, unique_urls, 1)
    /\ site_status' = "complete"
    /\ wpc' = "saved"
    /\ UNCHANGED <<web, sitemaps_to_process, stack, processed_sitemaps, all_urls, unique_urls,
                   fetch_count, normalizer, fetcher, classifier, truncator, proxy_cfg, dishes, dish_ingredients,
                   dish_attributes, crawl, extraction, kills>>

\* the walker before process_site is called
InitWalk ==
    /\ InitIdle
    /\ InitTools

\* one call of get_all_urls_from_site, for a site that serves any documents
\* under its sitemap URLs
NextWalk ==
    \/ GetAllUrlsFromSite([SitemapNodes -> Docs])
    \/ ProcessSeed
    \/ ProcessNested
    \/ ReturnUrls
    \/ ReturnUniqueUrls

\* the walker is a sequential program: it takes its next step
SpecWalk == InitWalk /\ [][NextWalk]_vars /\ WF_vars(NextWalk)

(***************************************************************************)
(* process_site for a site whose sitemap lists valid and invalid page URLs  *)
(***************************************************************************)
\* the sites that serve one <urlset> of candidate page URLs as their first
\* sitemap
CandidateWebs ==
    { [u \in SitemapNodes |-> IF u = StandardLocations(SiteUrl)[1] THEN d ELSE NoDoc] :
        d \in [kind : {"urlset"}, locs : LocLists(PageUrls \cup InvalidUrls)] }

\* process_site, lines 208-212
NextSite ==
    \/ GetAllUrlsFromSite(CandidateWebs)
    \/ ProcessSeed
    \/ ReturnUrls
    \/ ReturnUniqueUrls
    \/ SaveUrlsToDatabase

SpecSite == InitWalk /\ [][NextSite]_vars

(***************************************************************************)
(* process_site for a site whose sitemap lists URLs with "sitemap" in them  *)
(***************************************************************************)
\* the sites that serve one <urlset> as their first sitemap, with page URLs
\* and URLs that contain "sitemap"
SitemapLocWebs ==
    { [u \in SitemapNodes |-> IF u = StandardLocations(SiteUrl)[1] THEN d ELSE NoDoc] :
        d \in [kind : {"urlset"}, locs : LocLists(PageUrls \cup SitemapLikeUrls)] }

NextSitemapLocs ==
    \/ GetAllUrlsFromSite(SitemapLocWebs)
    \/ ProcessSeed
    \/ ProcessNested
    \/ ReturnUrls
    \/ ReturnUniqueUrls
    \/ SaveUrlsToDatabase

SpecSitemapLocs == InitWalk /\ [][NextSitemapLocs]_vars

(***************************************************************************)
(* process_site for a site whose sitemap lists one page in several ways     *)
(***************************************************************************)
VariantWebs ==
    { [u \in SitemapNodes |-> IF u = StandardLocations(SiteUrl)[1] THEN d ELSE NoDoc] :
        d \in [kind : {"urlset"}, locs : LocLists(PageVariants \cup RootVariants)] }

NextDedupKey ==
    \/ GetAllUrlsFromSite(VariantWebs)
    \/ ProcessSeed
    \/ ReturnUrls
    \/ ReturnUniqueUrls
    \/ SaveUrlsToDatabase

SpecDedupKey == InitWalk /\ [][NextDedupKey]_vars

(***************************************************************************)
(* process_site for a site with sitemaps that fail                          *)
(***************************************************************************)
\* process_site, lines 212 and 216-227: save_urls_to_database raises, its
\* transaction is rolled back and the except clause marks the site failed
SaveUrlsRaises ==
    /\ wpc = "done"
    /\ site_status' = "failed"
    /\ wpc' = "save_failed"
    /\ UNCHANGED <<web, sitemaps_to_process, stack, processed_sitemaps, all_urls, unique_urls,
                   fetch_count, normalizer, fetcher, classifier, truncator, proxy_cfg, store, crawl,
                   extraction, kills>>

\* the sites whose first sitemap cannot be fetched, cannot be parsed, names
\* the second one or lists pages, and whose second sitemap cannot be
\* fetched, cannot be parsed or lists pages
FaultyWebs ==
    { [u \in SitemapNodes |-> IF u = StandardLocations(SiteUrl)[1] THEN d1 ELSE d2] :
        d1 \in {NoDoc, BrokenDoc,
                [kind |-> "sitemapindex", locs |-> <<StandardLocations(SiteUrl)[2]>>]}
                 \cup [kind : {"urlset"}, locs : LocLists(PageUrls)],
        d2 \in {NoDoc, BrokenDoc} \cup [kind : {"urlset"}, locs : LocLists(PageUrls)] }

NextSiteFaults ==
    \/ GetAllUrlsFromSite(FaultyWebs)
    \/ ProcessSeed
    \/ ProcessNested
    \/ ReturnUrls
    \/ ReturnUniqueUrls
    \/ SaveUrlsToDatabase
    \/ SaveUrlsRaises

SpecSiteFaults == InitWalk /\ [][NextSiteFaults]_vars

(***************************************************************************)
(* The site walked again and again while the engines commit rows            *)
(***************************************************************************)
\* the sites that list their page URLs in one <urlset>: it is the first
\* sitemap, or the first sitemap is a <sitemapindex> that names it
FlatWebs ==
    { [u \in SitemapNodes |-> IF u = StandardLocations(SiteUrl)[1] THEN d ELSE NoDoc] :
        d \in [kind : {"urlset"}, locs : LocLists(PageUrls)] }
    \cup
    { [u \in SitemapNodes |->
          IF u = StandardLocations(SiteUrl)[1]
          THEN [kind |-> "sitemapindex", locs |-> <<StandardLocations(SiteUrl)[2]>>]
          ELSE d] :
        d \in [kind : {"urlset"}, locs : LocLists(PageUrls)] }

\* process_all_sites / process_site is run for the site again
ProcessSiteAgain ==
    /\ wpc = "saved"
    /\ wpc' = "idle"
    /\ UNCHANGED <<web, sitemaps_to_process, stack, processed_sitemaps, all_urls, unique_urls,
                   fetch_count, site_status, normalizer, fetcher, classifier, truncator, proxy_cfg, store, crawl, extraction,
                   kills>>

\* what a batch of the crawl engine commits for row r when its fetch
\* succeeded: the success UPDATE of save_results
RowCrawled(r) ==
    /\ recipe_urls[r].crawl_status = "pending"
    /\ \E page \in Pages :
          LET res == process_url(r, proxy_cfg, [p \in ProxyNames |-> <<"200">>], page)
          IN  /\ res.data # <<>>
              /\ recipe_urls' = ExecUpdate([table |-> recipe_urls, raised |-> FALSE], r,
                                           SuccessUpdate(res)).table
    /\ UNCHANGED <<tools, kills, proxy_cfg, dishes, dish_ingredients, dish_attributes,
                   crawl, extraction>>

\* what the extraction engine commits for row r: update_llm_status
RowExtracted(r) ==
    /\ r \in Eligible(recipe_urls)
    /\ \E st \in {"complete", "failed"} :
          recipe_urls' = update_llm_status(recipe_urls, r, st,
                                           IF st = "failed" THEN "OpenAI extraction failed"
                                           ELSE NULL)
    /\ UNCHANGED <<tools, kills, proxy_cfg, dishes, dish_ingredients, dish_attributes,
                   crawl, extraction>>

NextRewalk ==
    \/ GetAllUrlsFromSite(FlatWebs)
    \/ ProcessSeed
    \/ ProcessNested
    \/ ReturnUrls
    \/ ReturnUniqueUrls
    \/ SaveUrlsToDatabase
    \/ ProcessSiteAgain
    \/ \E r \in DOMAIN recipe_urls : RowCrawled(r)
    \/ \E r \in DOMAIN recipe_urls : RowExtracted(r)

SpecRewalk == InitWalk /\ [][NextRewalk]_vars

(***************************************************************************)
(* One fetch through the proxies                                            *)
(***************************************************************************)
InitFetch ==
    /\ InitIdle
    /\ raw_url = <<>> /\ normalized = <<>>
    /\ web = <<>>
    /\ InitWalker
    /\ fetch_args \in [cfg : [ProxyNames -> BOOLEAN], resp : ProxyResponses, page : Pages]
    /\ fetch_result = <<>>
    /\ classify_args = <<>>
    /\ classify_result = <<>>
    /\ truncate_args = <<>>
    /\ truncate_result = <<>>

\* process_url, line 39: content, proxy_used = await fetch_with_proxies(url)
FetchWithProxies ==
    /\ fetch_result = <<>>
    /\ fetch_result' = <<fetch_with_proxies(fetch_args.cfg, fetch_args.resp, fetch_args.page)>>
    /\ UNCHANGED <<fetch_args, classifier, truncator, normalizer, walker, proxy_cfg, store, crawl, extraction, kills>>

NextFetch == FetchWithProxies

SpecFetch == InitFetch /\ [][NextFetch]_vars

(***************************************************************************)
(* One call of the recipe classifier                                        *)
(***************************************************************************)
\* the sequences over S of n or fewer elements
SeqsUpTo(S, n) == UNION {[1..k -> S] : k \in 0..n}

\* URLs with "recipe" in the path, in the query only, in the host only,
\* nowhere, and no URL
ClassifyUrls ==
    { <<>>,
      <<"https", ":", "/", "/", "x", ".com", "/", "recipe", "s", "/", "pie">>,
      <<"https", ":", "/", "/", "x", ".com", "/", "RECIPE">>,
      <<"https", ":", "/", "/", "x", ".com", "/", "about">>,
      <<"https", ":", "/", "/", "x", ".com", "/", "about", "?", "q", "=", "recipe">>,
      <<"https", ":", "/", "/", "recipe", ".com", "/", "about">> }
TitleTexts == { <<>>, <<"Apple", " ", "Pie", " ", "Recipe">>, <<"about">> }
ContentChars == {"Ingredient", "s", "step", "Direction", "recipe"}

InitClassify ==
    /\ InitIdle
    /\ raw_url = <<>> /\ normalized = <<>>
    /\ web = <<>>
    /\ InitWalker
    /\ fetch_args = <<>> /\ fetch_result = <<>>
    /\ classify_args \in [url : ClassifyUrls, title : TitleTexts, description : TitleTexts,
                          content : SeqsUpTo(ContentChars, MaxTextLen)]
    /\ classify_result = <<>>
    /\ truncate_args = <<>>
    /\ truncate_result = <<>>

\* process_url, line 60: recipe_flag = is_recipe(url, title, description, clean_text)
Classify ==
    /\ classify_result = <<>>
    /\ classify_result' = <<is_recipe(classify_args.url, classify_args.title,
                                      classify_args.description, classify_args.content)>>
    /\ UNCHANGED <<classify_args, truncator, normalizer, walker, fetcher, proxy_cfg, store,
                   crawl, extraction, kills>>

NextClassify == Classify

SpecClassify == InitClassify /\ [][NextClassify]_vars

(***************************************************************************)
(* One call of truncate_content                                            *)
(***************************************************************************)
MaxContentLen == 12

\* the text truncate_content appends
TruncationMarker == <<"\n", "[Content truncated for processing]">>

\* truncate_content cutting at the first newline of the budget
truncate_content_FirstNewline(content, max_chars) ==
    IF Len(content) <= max_chars THEN content
    ELSE LET truncated == SubSeq(content, 1, max_chars)
             first_newline == find(truncated, "\n", 1) - 1
         IN  IF 5 * first_newline > 4 * max_chars
             THEN SubSeq(truncated, 1, first_newline) \o TruncationMarker
             ELSE truncated \o TruncationMarker

\* truncate_content (Python counts last_newline from 0 and returns -1 when
\* there is none; last_newline > max_chars * 0.8 in whole numbers)
truncate_content(content, max_chars) ==
    IF Len(content) <= max_chars THEN content
    ELSE LET truncated == SubSeq(content, 1, max_chars)
             last_newline == rfind(truncated, "\n") - 1
         IN  IF 5 * last_newline > 4 * max_chars
             THEN SubSeq(truncated, 1, last_newline) \o TruncationMarker
             ELSE truncated \o TruncationMarker

\* the characters of a content and the budgets of the calls
TruncateChars == {"a", "\n"}
Budgets == {5, 10, 11}

InitTruncate ==
    /\ InitIdle
    /\ raw_url = <<>> /\ normalized = <<>>
    /\ web = <<>>
    /\ InitWalker
    /\ fetch_args = <<>> /\ fetch_result = <<>>
    /\ classify_args = <<>> /\ classify_result = <<>>
    /\ truncate_args \in [content : SeqsUpTo(TruncateChars, MaxContentLen),
                          max_chars : Budgets]
    /\ truncate_result = <<>>

\* extract_recipe, line 71: content = self.truncate_content(content)
Truncate ==
    /\ truncate_result = <<>>
    /\ truncate_result' = <<truncate_content(truncate_args.content, truncate_args.max_chars)>>
    /\ UNCHANGED <<truncate_args, classifier, normalizer, walker, fetcher, proxy_cfg, store,
                   crawl, extraction, kills>>

NextTruncate == Truncate

SpecTruncate == InitTruncate /\ [][NextTruncate]_vars

TypeOK ==
    /\ \A r \in Rows : recipe_urls[r].crawl_status \in {"pending", "in_progress", "complete", "failed"}
    /\ \A r \in Rows : recipe_urls[r].llm_status \in {"pending", "in_progress", "complete", "failed"}
    /\ \A e \in CrawlEngines : cpc[e] \in {"off", "claim", "fetch", "crashed"}
    /\ xpc \in {"off", "claim", "extract", "commit", "saved", "save_failed", "crashed"}
    /\ kills \in 0..MaxKills

(***************************************************************************)
(* Claims                                                                  *)
(***************************************************************************)
\* C1: two concurrent claim operations of the crawl phase never select
\* overlapping rows: whenever two engine instances both hold a claimed
\* batch, the batches are disjoint.
C1_DisjointClaims ==
    \A e1, e2 \in CrawlEngines :
        (e1 # e2 /\ cpc[e1] = "fetch" /\ cpc[e2] = "fetch") => urls[e1] \cap urls[e2] = {}

\* C2: with one crawl engine and one extraction engine running, every row is
\* dispatched to the fetcher in at most one batch and to the LLM extractor in
\* at most one batch: a row that a batch dispatches has not been dispatched
\* by an earlier batch.
C2_DispatchedOnce ==
    [][\A r \in Rows :
          /\ (results[1][r] = <<>> /\ results'[1][r] # <<>>) => r \notin fetched
          /\ (llm_calls[r] = <<>> /\ llm_calls'[r] # <<>>) => r \notin extracted]_vars

StatusProgression ==
    {<<"pending", "in_progress">>, <<"in_progress", "complete">>, <<"in_progress", "failed">>}

\* C3: every change of a row's crawl_status is pending -> in_progress,
\* in_progress -> complete or in_progress -> failed.
C3_CrawlProgression ==
    [][\A r \in Rows :
          recipe_urls'[r].crawl_status # recipe_urls[r].crawl_status
            => <<recipe_urls[r].crawl_status, recipe_urls'[r].crawl_status>> \in StatusProgression]_vars

\* C4: every change of a row's llm_status is pending -> in_progress,
\* in_progress -> complete or in_progress -> failed.
C4_LlmProgression ==
    [][\A r \in Rows :
          recipe_urls'[r].llm_status # recipe_urls[r].llm_status
            => <<recipe_urls[r].llm_status, recipe_urls'[r].llm_status>> \in StatusProgression]_vars

\* C5: when a batch ends (save_results has run), every row of the batch whose
\* fetch failed on every proxy has crawl_status = failed and a non-empty
\* crawl_failure_reason.
C5_FetchFailureIsTerminal ==
    [][\A r \in Rows :
          (/\ cpc[1] = "fetch" /\ cpc'[1] # "fetch" /\ kills' = kills
           /\ r \in urls[1]
           /\ results[1][r][1].data = <<>>
           /\ results[1][r][1].error = "fetch_failed")
            => /\ recipe_urls'[r].crawl_status = "failed"
               /\ recipe_urls'[r].crawl_failure_reason \notin {NULL, ""}]_vars

\* C6: in every state of the store a Dish row exists for a record only if
\* the record's llm_status is complete.
C6_DishOnlyIfComplete ==
    \A r \in Rows : dishes[r] # NULL => recipe_urls[r].llm_status = "complete"

\* C7: a row that the extraction engine has claimed (and hands to the LLM)
\* has crawl_status = complete, is_recipe = true and a non-empty parsed_text.
C7_ExtractionGated ==
    \A r \in Rows :
        InBatch(r) => /\ recipe_urls[r].crawl_status = "complete"
                      /\ recipe_urls[r].is_recipe = "true"
                      /\ recipe_urls[r].parsed_text \notin {NULL, ""}

\* C8: after save_dish succeeds, the ingredient rows of the dish are exactly
\* the ingredient list the extractor returned, whatever rows were there before.
C8_IngredientsReplaced ==
    [][(xpc = "commit" /\ xpc' = "saved")
          => dish_ingredients'[Head(recipes)] = xresults[Head(recipes)][1].dish[1].ingredients]_vars

\* a row is marked failed in this step and the last LLM call of its task raised
LlmFailureMarked(r) ==
    /\ recipe_urls[r].llm_status # "failed"
    /\ recipe_urls'[r].llm_status = "failed"
    /\ llm_calls[r] # <<>>
    /\ Last(llm_calls[r]) \in LlmErrors

\* C9: a row whose LLM call raises is marked failed only after the extractor
\* has been called 3 times for it.
C9_FailedAfterThreeCalls ==
    [][\A r \in Rows : LlmFailureMarked(r) => Len(llm_calls[r]) = StopAfterAttempt]_vars

\* C10: when a row is marked failed because its LLM call raised, its
\* llm_failure_reason is the string of the error that was raised.
C10_ReasonIsRaisedError ==
    [][\A r \in Rows :
          LlmFailureMarked(r) => recipe_urls'[r].llm_failure_reason = Last(llm_calls[r])]_vars

\* C14: URL normalization is idempotent: normalizing a normalized URL gives
\* the same URL, for every URL (empty, scheme-less and unparsable ones too).
C14_NormalizeIdempotent ==
    Len(normalized) = 2 => normalized[2] = normalized[1]

\* the sitemaps a served document references
NestedOf(u) ==
    IF u \in DOMAIN web /\ web[u] # NoDoc
    THEN {extract_from_sitemap(web[u], u).nested_sitemaps[i] :
             i \in 1..Len(extract_from_sitemap(web[u], u).nested_sitemaps)}
    ELSE {}

\* the sitemap graph has a cycle (a sitemap that references itself included)
HasCycle ==
    \E n \in 2..(Cardinality(SitemapNodes) + 1) : \E q \in [1..n -> SitemapNodes] :
        /\ q[1] = q[n]
        /\ \A i \in 1..(n - 1) : q[i + 1] \in NestedOf(q[i])

\* C11: the sitemap walk terminates for every finite sitemap graph, cycles
\* and self-references included: the recursion is never deeper than
\* max_depth + 1 calls and the walk reaches its end.
C11_WalkTerminates ==
    [](Len(stack) <= max_depth + 1) /\ <>(wpc = "done")

\* a walk of a cyclic sitemap graph has ended, after going round the cycle
C11_Witness ==
    /\ wpc = "done"
    /\ HasCycle
    /\ \E u \in DOMAIN fetch_count : fetch_count[u] > 1

\* C12: during one walk each sitemap URL is fetched and parsed at most once.
C12_VisitedAtMostOnce ==
    \A u \in DOMAIN fetch_count : fetch_count[u] <= 1

C15_InsertIdempotent ==
    [][/\ \A r1, r2 \in DOMAIN recipe_urls' :
             r1 # r2 => recipe_urls'[r1].url # recipe_urls'[r2].url
       /\ (wpc = "done" /\ wpc' = "saved")
             => \A r \in DOMAIN recipe_urls :
                   r \in DOMAIN recipe_urls' /\ recipe_urls'[r] = recipe_urls[r]]_vars

\* a walk has found, under another original URL, the URL of a row that the
\* engines have crawled and extracted, and has saved its result
C15_Witness ==
    /\ wpc = "saved"
    /\ \E r \in DOMAIN recipe_urls : \E i \in 1..Len(unique_urls) :
          /\ recipe_urls[r].crawl_status = "complete"
          /\ recipe_urls[r].llm_status = "complete"
          /\ unique_urls[i].url = recipe_urls[r].url
          /\ unique_urls[i].original_url # recipe_urls[r].original_url

\* the k-th request through proxy p fails (an exception or a non-200 answer)
Fails(p, k) == fetch_args.resp[p][k] # "200"

C17_RetriedOnce ==
    fetch_result # <<>> =>
        \A p \in ProxyNames :
            (/\ fetch_args.cfg[p]
             /\ (p = "premium" /\ fetch_args.cfg["datacenter"])
                   => \A k \in 1..AttemptsPerProxy : Fails("datacenter", k)
             /\ Fails(p, 1)
             /\ ~Fails(p, 2))
              => /\ fetch_result[1].proxy = p
                 /\ fetch_result[1].content = <<fetch_args.page>>

\* C18: a fetch fails only when every configured proxy has failed in all its
\* attempts; the failure has no content and no proxy label; a proxy that is
\* not configured is not requested; a non-200 answer is a failed attempt
\* (the next proxy is tried, or the fetch fails).
C18_FailureOnlyWhenExhausted ==
    fetch_result # <<>> =>
        LET res == fetch_result[1]
        IN  /\ res.content = <<>> =>
                  /\ res.proxy = NULL
                  /\ \A p \in ProxyNames : fetch_args.cfg[p] =>
                        \A k \in 1..AttemptsPerProxy : Fails(p, k)
            /\ \A p \in ProxyNames :
                  ~fetch_args.cfg[p] => \A j \in 1..Len(res.attempts) : res.attempts[j] # p
            /\ \A p \in ProxyNames :
                  (fetch_args.cfg[p] /\ fetch_args.resp[p][1] = "non200") => res.proxy # p

\* C19: in both engines at most max_concurrency units of work are inside the
\* semaphore (fetching, or calling the LLM) at any moment, also when the
\* batch is larger than max_concurrency; a row of the batch that waits for a
\* permit is dispatched eventually.
C19_BoundedConcurrency ==
    /\ [](/\ \A e \in CrawlEngines : Cardinality(holding[e]) <= MaxConcurrency
          /\ Cardinality(xholding) <= MaxConcurrency)
    /\ \A r \in Rows :
          (cpc[1] = "fetch" /\ r \in urls[1] /\ results[1][r] = <<>> /\ r \notin holding[1])
              ~> (r \in holding[1])
    /\ \A r \in Rows :
          (xpc = "extract" /\ InBatch(r) /\ xresults[r] = <<>> /\ r \notin xholding)
              ~> (r \in xholding)

\* a batch larger than max_concurrency: every permit is taken and a row waits
C19_Witness ==
    /\ cpc[1] = "fetch"
    /\ Cardinality(urls[1]) > MaxConcurrency
    /\ Cardinality(holding[1]) = MaxConcurrency
    /\ \E r \in urls[1] : results[1][r] = <<>> /\ r \notin holding[1]

\* C20: a row that fails does not keep the other rows of its batch from
\* being committed.  Crawl engine: when a batch ends (save_results has run),
\* every row of the batch whose own fetch and parsing succeeded is committed
\* complete, whatever happened to the other rows.  Extraction engine: every
\* row of the batch is committed on its own, complete or failed, and the run
\* goes on with the next row or the next batch.
C20_FailureIsolated ==
    [][/\ \A r \in Rows :
             (/\ cpc[1] = "fetch" /\ cpc'[1] # "fetch" /\ kills' = kills
              /\ r \in urls[1]
              /\ results[1][r][1].data # <<>>)
               => recipe_urls'[r].crawl_status = "complete"
       /\ (recipes # <<>> /\ recipes' = Tail(recipes) /\ kills' = kills)
               => /\ recipe_urls'[Head(recipes)].llm_status \in {"complete", "failed"}
                  /\ xpc' \in {"commit", "claim"}]_vars

\* C21: a store failure in the claim step or in the commit step does not
\* end the service loop: the crawl engine leaves the claim step only for the
\* processing of a batch, and when the commit of a batch in which every row
\* succeeded ends, the engine is at the claim step again; the extraction
\* engine never leaves its loop.
C21_LoopSurvivesStoreFailure ==
    [][/\ (cpc[1] = "claim" /\ cpc'[1] # "claim") => cpc'[1] = "fetch"
       /\ (/\ cpc[1] = "fetch" /\ cpc'[1] # "fetch"
           /\ \A r \in urls[1] : results[1][r] # <<>> /\ results[1][r][1].data # <<>>)
             => cpc'[1] = "claim"
       /\ xpc # "crashed" => xpc' # "crashed"]_vars

\* C22: when the crawl process is terminated between the claim and the
\* commit of a batch, every row of the batch is left in_progress, and no
\* batch that a claim can return afterwards contains one of them.
C22_TerminatedBatchStuck ==
    [][(cpc[1] = "fetch" /\ cpc'[1] = "claim" /\ kills' = kills + 1)
         => /\ \A r \in urls[1] : recipe_urls'[r].crawl_status = "in_progress"
            /\ \A S \in get_pending_urls(recipe_urls') : S \cap urls[1] = {}]_vars

\* C23: a candidate URL that fails validation (a scheme that is not http or
\* https, a host without a domain suffix, an excluded path) never gets a
\* record: no row of recipe_urls, in any status, has it as its original URL,
\* while the valid URLs listed next to it are stored.
C23_InvalidUrlNeverStored ==
    /\ \A r \in DOMAIN recipe_urls : recipe_urls[r].original_url \notin InvalidUrls
    /\ wpc = "saved" =>
          \A i \in DOMAIN unique_urls :
              unique_urls[i].original_url \in PageUrls
                 => \E r \in DOMAIN recipe_urls : recipe_urls[r].url = unique_urls[i].url

\* the walk has found an invalid and a valid URL and has saved its result
C23_Witness ==
    /\ wpc = "saved"
    /\ \E i \in DOMAIN unique_urls : unique_urls[i].original_url \in InvalidUrls
    /\ recipe_urls # <<>>

\* C24: the recipe classifier returns true exactly when "recipe" occurs in
\* the path of the URL (rule A), in the title or the description (rule B),
\* or the content has an ingredient term and an instruction term (rule C),
\* in any letter case: a URL with "recipe" in its path is a recipe whatever
\* the title, description and content are, and a page without "recipe"
\* anywhere whose content has "ingredients" but no instruction term is not.
RecipeRuns == {"recipe", "Recipe", "RECIPE"}
IngredientRuns == {"ingredient", "Ingredient"}
InstructionRuns == {"instruction", "direction", "Direction", "step", "Step"}
HasRun(s, runs) == \E i \in 1..Len(s) : s[i] \in runs
RuleA(a) == HasRun(urlparse(a.url).path, RecipeRuns)
RuleB(a) == HasRun(a.title, RecipeRuns) \/ HasRun(a.description, RecipeRuns)
RuleC(a) == HasRun(a.content, IngredientRuns) /\ HasRun(a.content, InstructionRuns)
C24_ClassifierRules ==
    classify_result # <<>> =>
        /\ classify_result[1] = (RuleA(classify_args) \/ RuleB(classify_args)
                                    \/ RuleC(classify_args))
        /\ In(<<"/", "recipe", "s", "/">>, classify_args.url) => classify_result[1] = TRUE
        /\ (/\ ~HasRun(classify_args.url, RecipeRuns)
            /\ ~HasRun(classify_args.title, RecipeRuns)
            /\ ~HasRun(classify_args.description, RecipeRuns)
            /\ ~HasRun(classify_args.content, RecipeRuns)
            /\ In(<<"Ingredient", "s">>, classify_args.content)
            /\ ~HasRun(classify_args.content, InstructionRuns))
              => classify_result[1] = FALSE
C24_Witness ==
    /\ classify_result = <<TRUE>>
    /\ In(<<"/", "recipe", "s", "/">>, classify_args.url)
    /\ classify_args.title = <<>> /\ classify_args.description = <<>>
    /\ classify_args.content = <<>>

\* C25: walking a site whose sitemap is a urlset that lists one valid page
\* URL creates exactly one row: its url is the normalized form of the listed
\* URL (lower case, no trailing slash), it carries the id of the site and
\* the URL of the sitemap that listed it, and its crawl_status is pending.
FirstSitemap == <<"https", ":", "/", "/", "x", ".com", "/", "sitemap", ".xml">>
OneListedUrl(u) == wpc = "saved" /\ web[FirstSitemap].locs = <<u>>
ExpectedUrl(u) ==
    IF u = <<"https", ":", "/", "/", "X", ".com", "/", "x", "/">>
    THEN <<"https", ":", "/", "/", "x", ".com", "/", "x">>
    ELSE u
C26_RecipeRowCommitted ==
    [][\A r \in Rows :
          (/\ cpc[1] = "fetch" /\ cpc'[1] # "fetch" /\ kills' = kills
           /\ r \in urls[1]
           /\ recipe_urls[r].crawl_status = "pending"
           /\ results[1][r][1].data # <<>>
           /\ results[1][r][1].data[1].is_recipe)
            => /\ recipe_urls'[r].crawl_status = "complete"
               /\ recipe_urls'[r].is_recipe = "true"
               /\ recipe_urls'[r].llm_status = "pending"
               /\ recipe_urls'[r].proxy_used = results[1][r][1].proxy_used
               /\ recipe_urls'[r].proxy_used \in ProxyNames]_vars

\* C27: when the extraction engine has claimed a row and the extractor
\* returned a dish for it, then, once the result is handled, recipe.dishes
\* has a row with the id of the record and the returned dish_name, the
\* ingredient rows of that dish are the returned ingredients with their
\* quantities, and llm_status of the record is complete.
DishHandled ==
    /\ recipes # <<>> /\ recipes' = Tail(recipes) /\ kills' = kills
    /\ xresults[Head(recipes)] # <<>>
    /\ xresults[Head(recipes)][1].is_tuple
    /\ xresults[Head(recipes)][1].dish # <<>>
DishStored(r, dish) ==
    /\ recipe_urls'[r].llm_status = "complete"
    /\ dishes'[r] = dish.dish_name
    /\ dish.ingredients # <<>> =>
          /\ Len(dish_ingredients'[r]) = Len(dish.ingredients)
          /\ \A i \in 1..Len(dish.ingredients) :
                dish_ingredients'[r][i].quantity = dish.ingredients[i].quantity
C28_FailureReasonsPresent ==
    \A r \in DOMAIN recipe_urls :
        /\ recipe_urls[r].crawl_status = "failed"
              => recipe_urls[r].crawl_failure_reason \notin {NULL, ""}
        /\ recipe_urls[r].llm_status = "failed"
              => recipe_urls[r].llm_failure_reason \notin {NULL, ""}

\* C29: the extraction engine reads what the crawl engine stored: for every
\* row of a claimed batch, the text, title and description of the message
\* sent to the LLM are the parsed_text, page_title and page_description that
\* save_results wrote for that row.
C29_ExtractionReadsCrawlOutput ==
    \A r \in Rows :
        (xpc = "extract" /\ InBatch(r)) =>
            user_message(recipe_data(recipe_urls, r))
              = [title       |-> recipe_urls[r].page_title,
                 description |-> recipe_urls[r].page_description,
                 text        |-> recipe_urls[r].parsed_text]

\* C30: pipeline liveness: with both engines running, the store answering
\* and the collaborators returning, every row that is pending eventually has
\* crawl_status complete or failed, and every row whose crawl completed as a
\* recipe with a non-empty text eventually has llm_status complete or failed.
C30_PipelineLiveness ==
    \A r \in Rows :
        /\ (recipe_urls[r].crawl_status = "pending")
              ~> (recipe_urls[r].crawl_status \in {"complete", "failed"})
        /\ (/\ recipe_urls[r].crawl_status = "complete"
            /\ recipe_urls[r].is_recipe = "true"
            /\ recipe_urls[r].parsed_text \notin {NULL, ""})
              ~> (recipe_urls[r].llm_status \in {"complete", "failed"})

\* C31: the walk is depth-bounded: a seed sitemap is processed at depth 0, a
\* sitemap referenced from a sitemap at depth d is processed at depth d + 1,
\* and no sitemap is fetched at a depth greater than max_depth (3).
C31_DepthBounded ==
    \A i \in DOMAIN stack :
        /\ stack[i].depth = i - 1
        /\ stack[i].depth <= 3
C31_Witness ==
    /\ Len(stack) = 4
    /\ stack[4].depth = 3
    /\ stack[4].nested_sitemaps # <<>>

\* C32: the walk is breadth-first: every sitemap at depth d is fetched
\* before any sitemap at depth d + 1.  For d = 0: when a nested sitemap is
\* fetched (a call at depth 1 or more fetches its document), every seed has
\* been taken from sitemaps_to_process.
C32_BreadthFirst ==
    [][(stack # <<>> /\ Len(stack') = Len(stack) + 1) => sitemaps_to_process = <<>>]_vars

\* C33: a sitemap that cannot be fetched or parsed does not end the walk:
\* the other seeds and nested sitemaps are still processed, the page URLs
\* the other sitemaps list are inserted and the site is marked complete; the
\* site is marked failed only when the walk or the save raised.
ListedPages(u) == {web[u].locs[i] : i \in DOMAIN web[u].locs}
C33_SitemapFailureNotFatal ==
    /\ wpc = "saved" =>
          /\ site_status = "complete"
          /\ \A u \in DOMAIN web :
                web[u].kind = "urlset" =>
                    \A page \in ListedPages(u) :
                        \E r \in DOMAIN recipe_urls :
                            /\ recipe_urls[r].url = NormalizedUrl[page]
                            /\ recipe_urls[r].crawl_status = "pending"
    /\ site_status = "failed" => wpc = "save_failed"
C33_Witness ==
    /\ wpc = "saved" /\ site_status = "complete"
    /\ \E u \in DOMAIN web : web[u] = BrokenDoc
    /\ \E u \in DOMAIN web : web[u].kind = "urlset" /\ Len(web[u].locs) = MaxLocs
    /\ Len(recipe_urls) > 0

\* C34: a <loc> URL that contains "sitemap" in any letter case is a nested
\* sitemap, to be processed one level deeper, and never a page: it is in the
\* nested sitemaps of the call that read it, never in the URLs the walk
\* collects, and no row of recipe_urls is created for it.
NamesSitemap(u) == \E i \in 1..Len(u) : u[i] \in {"sitemap", "Sitemap", "SITEMAP"}
NoSitemapIn(data) == \A k \in DOMAIN data : ~NamesSitemap(data[k].original_url)
C34_SitemapLocIsNested ==
    [][/\ \A i \in DOMAIN stack' : NoSitemapIn(stack'[i].urls)
       /\ NoSitemapIn(all_urls') /\ NoSitemapIn(unique_urls') /\ NoSitemapIn(recipe_urls')
       /\ (stack = <<>> /\ stack' # <<>>)
            => /\ stack'[1].nested_sitemaps
                    = SelectSeq(web[stack'[1].sitemap_url].locs, NamesSitemap)
               /\ stack'[1].depth = 0
       /\ (stack # <<>> /\ Len(stack') = Len(stack) + 1)
            => stack'[Len(stack')].depth = stack[Len(stack)].depth + 1]_vars
C34_Witness ==
    /\ wpc = "saved"
    /\ Len(recipe_urls) = 1
    /\ \E i \in DOMAIN web[StandardLocations(SiteUrl)[1]].locs :
          web[StandardLocations(SiteUrl)[1]].locs[i]
             = <<"https", ":", "/", "/", "x", ".com", "/", "Sitemap">>

\* C35: the two phases write disjoint fields: no step of the crawl engine
\* changes llm_status or llm_failure_reason of a row or any dish, ingredient
\* or attribute row, and no step of the extraction engine changes
\* crawl_status, crawl_failure_reason, is_recipe, proxy_used or the parsed
\* content (parsed_text, page_title, page_description) of a row.
CrawlFields == {"crawl_status", "crawl_failure_reason", "is_recipe", "proxy_used",
                "parsed_text", "page_title", "page_description"}
LlmFields == {"llm_status", "llm_failure_reason"}
SameFields(F) == \A r \in Rows : \A c \in F : recipe_urls'[r][c] = recipe_urls[r][c]
C35_DisjointFields ==
    [][/\ crawl' # crawl
            => /\ SameFields(LlmFields)
               /\ dishes' = dishes
               /\ dish_ingredients' = dish_ingredients
               /\ dish_attributes' = dish_attributes
       /\ extraction' # extraction => SameFields(CrawlFields)]_vars
C35_Witness ==
    \E r, q \in Rows :
        /\ recipe_urls[r].crawl_status = "complete" /\ recipe_urls[r].llm_status = "complete"
        /\ dishes[r] # NULL
        /\ recipe_urls[q].crawl_status = "complete" /\ recipe_urls[q].llm_status = "failed"

\* C36: when save_dish raises after the LLM returned a dish, llm_status of
\* the row becomes failed with the string of the exception as
\* llm_failure_reason, and nothing that save_dish wrote persists: the dish
\* row, the ingredient rows and the attribute row are written together or
\* not at all.
SaveDishStep == xpc = "commit" /\ xpc' \in {"saved", "save_failed"}
DishTablesUnchanged ==
    dishes' = dishes /\ dish_ingredients' = dish_ingredients
       /\ dish_attributes' = dish_attributes
C36_SaveFailureAtomic ==
    [][/\ (SaveDishStep /\ xpc' = "save_failed") => DishTablesUnchanged
       /\ (SaveDishStep /\ xpc' = "saved")
            => LET r == Head(recipes)
                   d == xresults[r][1].dish[1]
               IN  /\ dishes'[r] = d.dish_name
                   /\ d.ingredients # <<>> => dish_ingredients'[r] = d.ingredients
                   /\ d.attributes # NULL => dish_attributes'[r] = d.attributes
       /\ (xpc = "save_failed" /\ recipes' = Tail(recipes) /\ kills' = kills)
            => /\ recipe_urls'[Head(recipes)].llm_status = "failed"
               /\ recipe_urls'[Head(recipes)].llm_failure_reason
                     = xresults[Head(recipes)][1].exc
               /\ xresults[Head(recipes)][1].exc \in {"save failed", ""}
               /\ DishTablesUnchanged
               /\ dishes'[Head(recipes)] = NULL]_vars
C36_Witness ==
    \E r \in Rows :
        /\ recipe_urls[r].llm_status = "failed"
        /\ recipe_urls[r].llm_failure_reason = "save failed"
        /\ dishes[r] = NULL /\ dish_ingredients[r] = <<>> /\ dish_attributes[r] = NULL

\* C37: llm_status = complete is written only after the dish was saved:
\* in every reachable state every row whose llm_status is complete has a
\* dish row keyed by its id.
C37_CompleteHasDish ==
    \A r \in Rows : recipe_urls[r].llm_status = "complete" => dishes[r] # NULL
C37_Witness ==
    \E r \in Rows : recipe_urls[r].llm_status = "complete" /\ dishes[r] # NULL

\* C38: truncate_content returns a content no longer than the budget as it
\* is; for a longer content it returns a prefix of the content of at most
\* budget characters followed by the truncation marker: when the last
\* newline among the first budget characters lies past 80% of the budget
\* (more than 0.8 * budget characters stand before it) the prefix is what
\* stands before that newline, otherwise it is the first budget characters.
NewlinesInBudget(a) ==
    {p \in 1..a.max_chars : p <= Len(a.content) /\ a.content[p] = "\n"}
LastNewlineInBudget(a) ==
    CHOOSE p \in NewlinesInBudget(a) : \A q \in NewlinesInBudget(a) : q <= p
CutsAtNewline(a) ==
    /\ NewlinesInBudget(a) # {}
    /\ 10 * (LastNewlineInBudget(a) - 1) > 8 * a.max_chars
ExpectedPrefix(a) ==
    IF CutsAtNewline(a)
    THEN [i \in 1..(LastNewlineInBudget(a) - 1) |-> a.content[i]]
    ELSE [i \in 1..a.max_chars |-> a.content[i]]
C38_TruncateContent ==
    truncate_result # <<>> =>
        LET a == truncate_args
            out == truncate_result[1]
        IN  IF Len(a.content) <= a.max_chars
            THEN out = a.content
            ELSE /\ out = ExpectedPrefix(a) \o <<"\n", "[Content truncated for processing]">>
                 /\ Len(ExpectedPrefix(a)) <= a.max_chars
                 /\ \A i \in DOMAIN ExpectedPrefix(a) : out[i] = a.content[i]
C38_Witness ==
    /\ truncate_result # <<>>
    /\ truncate_args.max_chars = 11
    /\ Len(truncate_args.content) = 12
    /\ truncate_args.content[3] = "\n" /\ truncate_args.content[10] = "\n"
    /\ truncate_args.content[11] = "a"
    /\ Len(truncate_result[1]) = 11

\* C39: no valid page is lost to deduplication: after a walk every listed
\* page URL that passes validation has a row with its normalized URL, also
\* when a URL listed before it has the same normalized URL and fails
\* validation.
C39_NoValidPageLost ==
    wpc = "saved" =>
        \A u \in DOMAIN web :
            web[u].kind = "urlset" =>
                \A page \in ListedPages(u) :
                    is_valid_url(page) =>
                        \E r \in DOMAIN recipe_urls : recipe_urls[r].url = NormalizedUrl[page]

\* C40: the normalized URL is a sound deduplication key: two URLs that
\* differ only in scheme (http, https), letter case, query string, fragment
\* or a trailing slash have the same key, the root of a site with and
\* without its trailing slash included, so the walk keeps one of them.
SameResource(u, v) ==
    \/ u \in PageVariants /\ v \in PageVariants
    \/ u \in RootVariants /\ v \in RootVariants
C40_SoundDedupKey ==
    \A i, j \in DOMAIN unique_urls :
        SameResource(unique_urls[i].original_url, unique_urls[j].original_url)
            => /\ i = j
               /\ NormalizedUrl[unique_urls[i].original_url]
                     = NormalizedUrl[unique_urls[j].original_url]
\* the same for the variants of a page that is not the root
C40_PageVariantsShareKey ==
    \A i, j \in DOMAIN unique_urls :
        (unique_urls[i].original_url \in PageVariants
            /\ unique_urls[j].original_url \in PageVariants) => i = j

====
